---- MODULE Spec2Model ----
(***************************************************************************)
(* Money-muling detection engine: CSV rows -> GraphData -> cycle, smurfing *)
(* and shell detectors -> scoring pipeline.                                *)
(*                                                                         *)
(* Account ids are modelled by naturals whose numeric order is the         *)
(* lexicographic order of the id strings (ids "A" < "B" < ...).            *)
(* Amounts are whole currency units, timestamps whole hours since an       *)
(* epoch; ratios and scores are exact rationals kept as integers.          *)
(*                                                                         *)
(* round(x, k) is computed on the exact rational (half to even).  The      *)
(* code rounds the nearest double, so on an exact decimal tie (28.75 to    *)
(* one place) it can return the other neighbour; nothing checked below     *)
(* depends on the direction of a tie.                                      *)
(***************************************************************************)
EXTENDS Integers, Sequences, FiniteSets, TLC

\* ------------------------------------------------------------------------
\* Program constants
\* ------------------------------------------------------------------------
MAX_CYCLE_LEN == 5
MIN_CYCLE_LEN == 3
CYCLE_MAX_TIME_SPAN_HOURS == 72
\* MAX_AMOUNT_RATIO = 1.25 of cycle_detector.py, in hundredths
CYCLE_MAX_AMOUNT_RATIO_X100 == 125

MIN_PATH_LEN == 3
MAX_PATH_LEN == 8
INTERMEDIATE_DEGREE_MIN == 2
INTERMEDIATE_DEGREE_MAX == 3
SHELL_MAX_TIME_SPAN_HOURS == 72
\* MAX_AMOUNT_RATIO = 3.0 of shell_detector.py, in hundredths
SHELL_MAX_AMOUNT_RATIO_X100 == 300
MIN_TRANSACTION_AMOUNT == 100

\* ------------------------------------------------------------------------
\* Generic helpers (Python built-ins the code relies on)
\* ------------------------------------------------------------------------
Range(s) == {s[i] : i \in DOMAIN s}

InSeq(x, s) == \E i \in DOMAIN s : s[i] = x

SetMax(S) == CHOOSE x \in S : \A y \in S : y <= x

SetMin(S) == CHOOSE x \in S : \A y \in S : x <= y

\* dict.get(k, [])
Get(d, k) == IF k \in DOMAIN d THEN d[k] ELSE <<>>

\* TLC hands an operator its arguments unevaluated.  Computed(x) makes it
\* evaluate x on the spot: a loop of the code is a recursion on an accumulator,
\* and the accumulator is a value before the next iteration starts.
Computed(x) == x = x

\* lexicographic order on tuples of integers (Python tuple comparison)
RECURSIVE LexLess(_, _)
LexLess(a, b) ==
    IF a = <<>> THEN b # <<>>
    ELSE IF b = <<>> THEN FALSE
    ELSE IF a[1] < b[1] THEN TRUE
    ELSE IF a[1] > b[1] THEN FALSE
    ELSE LexLess(Tail(a), Tail(b))

\* a variant that leaves the items in iteration order
NotSortedBy(items) == [i \in DOMAIN items |-> items[i].val]

\* sorted(iterable, key=...): items is a sequence of [key |-> tuple, val |-> x]
\* in iteration order; the result is the stable sort of the vals by key: an
\* item comes after the items with a smaller key and the earlier items with
\* an equal key
sorted_by(items) ==
    LET Before(i, j) ==
            \/ LexLess(items[i].key, items[j].key)
            \/ items[i].key = items[j].key /\ i < j
        pos == [i \in DOMAIN items |-> 1 + Cardinality({j \in DOMAIN items : Before(j, i)})]
    IN [p \in DOMAIN items |-> items[CHOOSE i \in DOMAIN items : pos[i] = p].val]

\* a variant that leaves the order as it is
Unsorted(xs) == xs

\* sorted(xs) for a sequence of integers
sorted(xs) == sorted_by([i \in DOMAIN xs |-> [key |-> <<xs[i]>>, val |-> xs[i]]])

\* ascending enumeration of a finite set of integers
Ascending(S) ==
    [p \in 1..Cardinality(S) |-> CHOOSE x \in S : Cardinality({y \in S : y < x}) = p - 1]

Reverse(s) == [i \in DOMAIN s |-> s[Len(s) + 1 - i]]

\* round(n/d) for n >= 0, d > 0, ties to even (Python 3 round)
RoundDiv(n, d) ==
    LET q == n \div d
        r == n % d
    IN IF 2 * r > d THEN q + 1
       ELSE IF 2 * r < d THEN q
       ELSE IF q % 2 = 0 THEN q ELSE q + 1

\* ------------------------------------------------------------------------
\* graph_builder.py
\* ------------------------------------------------------------------------
\* Transaction dataclass
Transaction(id, s, r, a, t) ==
    [transaction_id |-> id, sender |-> s, receiver |-> r, amount |-> a, timestamp |-> t]

\* ------------------------------------------------------------------------
\* graph_builder.py: parsing.  A CSV cell is modelled by what the parsers
\* look at: whether it is missing (None), surrounded by blanks, and what its
\* text is (a number, a timestamp in some format, or other text).  A header
\* name is its lower-case trimmed name plus whether it was written in upper
\* case and with blanks around it.
\* ------------------------------------------------------------------------
MAX_TRANSACTIONS == 10000

ColumnName(name, upper, pad) == [name |-> name, upper |-> upper, pad |-> pad]

\* h.strip().lower()
NormaliseKey(h) == [h EXCEPT !.upper = FALSE, !.pad = FALSE]

REQUIRED_COLUMNS ==
    {ColumnName(n, FALSE, FALSE) :
        n \in {"transaction_id", "sender_id", "receiver_id", "amount", "timestamp"}}

Cell(kind, value, fmt, pad) == [kind |-> kind, value |-> value, fmt |-> fmt, pad |-> pad]

\* the value csv.DictReader gives a column a short row has no cell for
None == Cell("none", 0, "", FALSE)

\* str.strip()
strip(c) == [c EXCEPT !.pad = FALSE]

\* the outcome of evaluating an expression: a value, or the exception raised
Returns(v) == [raises |-> "", value |-> v]

Raises(e) == [raises |-> e, value |-> 0]

\* row[...].strip(): None has no strip
StripField(raw) ==
    IF raw.kind = "none" THEN Raises("AttributeError") ELSE Returns(strip(raw).value)

TimestampFormats == {"%Y-%m-%d %H:%M:%S", "%Y-%m-%dT%H:%M:%S"}

_parse_timestamp(raw) ==
    IF raw.kind = "none" THEN Raises("AttributeError")
    ELSE IF strip(raw).kind = "time" /\ strip(raw).fmt \in TimestampFormats
         THEN Returns(strip(raw).value)
         ELSE Raises("ValueError")

\* the except clause catches ValueError and TypeError only
_parse_amount(raw) ==
    IF raw.kind = "none" THEN Raises("AttributeError")
    ELSE IF strip(raw).kind # "number" THEN Raises("ValueError")
    ELSE IF strip(raw).value < 0 THEN Raises("ValueError")
    ELSE Returns(strip(raw).value)

\* row[name] of the dict csv.DictReader builds from a data row, keys
\* normalised: the cell under the (last) column of that name, None if the
\* row is too short to have one
RowGet(fieldnames, cells, name) ==
    LET cols == {i \in DOMAIN fieldnames : NormaliseKey(fieldnames[i]).name = name}
        idx == CHOOSE i \in cols : \A j \in cols : j <= i
    IN IF idx <= Len(cells) THEN cells[idx] ELSE None

\* the first exception raised by a sequence of evaluations, "" if none
RECURSIVE FirstRaised(_)
FirstRaised(rs) ==
    IF rs = <<>> THEN ""
    ELSE IF rs[1].raises # "" THEN rs[1].raises
    ELSE FirstRaised(Tail(rs))

\* tx = Transaction(...) of parse_csv: the arguments are evaluated in order
NewTransaction(fieldnames, cells) ==
    LET transaction_id == StripField(RowGet(fieldnames, cells, "transaction_id"))
        sender == StripField(RowGet(fieldnames, cells, "sender_id"))
        receiver == StripField(RowGet(fieldnames, cells, "receiver_id"))
        amount == _parse_amount(RowGet(fieldnames, cells, "amount"))
        timestamp == _parse_timestamp(RowGet(fieldnames, cells, "timestamp"))
        raised == FirstRaised(<<transaction_id, sender, receiver, amount, timestamp>>)
    IN IF raised # "" THEN Raises(raised)
       ELSE Returns(Transaction(transaction_id.value, sender.value, receiver.value,
                                amount.value, timestamp.value))

\* a variant whose all_nodes holds the senders only
BuildGraphSendersOnly(transactions) ==
    LET senders == {transactions[i].sender : i \in DOMAIN transactions}
        receivers == {transactions[i].receiver : i \in DOMAIN transactions}
        nodes == senders \cup receivers
        OutOf(n) == LET T(tx) == tx.sender = n IN SelectSeq(transactions, T)
        InOf(n) == LET T(tx) == tx.receiver = n IN SelectSeq(transactions, T)
    IN [transactions |-> transactions,
        adj_list |-> [n \in senders |-> OutOf(n)],
        reverse_adj_list |-> [n \in receivers |-> InOf(n)],
        node_stats |-> [n \in nodes |->
                          [in_degree |-> Len(InOf(n)), out_degree |-> Len(OutOf(n))]],
        all_nodes |-> senders]

\* a variant whose out_degree counts the distinct receivers of a node
BuildGraphDistinctOutDegree(transactions) ==
    LET senders == {transactions[i].sender : i \in DOMAIN transactions}
        receivers == {transactions[i].receiver : i \in DOMAIN transactions}
        nodes == senders \cup receivers
        OutOf(n) == LET T(tx) == tx.sender = n IN SelectSeq(transactions, T)
        InOf(n) == LET T(tx) == tx.receiver = n IN SelectSeq(transactions, T)
    IN [transactions |-> transactions,
        adj_list |-> [n \in senders |-> OutOf(n)],
        reverse_adj_list |-> [n \in receivers |-> InOf(n)],
        node_stats |-> [n \in nodes |->
                          [in_degree |-> Len(InOf(n)),
                           out_degree |-> Cardinality({tx.receiver : tx \in Range(OutOf(n))})]],
        all_nodes |-> nodes]

\* _build_graph: adjacency lists in input order, per-node degrees, node set
_build_graph(transactions) ==
    LET senders == {transactions[i].sender : i \in DOMAIN transactions}
        receivers == {transactions[i].receiver : i \in DOMAIN transactions}
        nodes == senders \cup receivers
        OutOf(n) == LET T(tx) == tx.sender = n IN SelectSeq(transactions, T)
        InOf(n) == LET T(tx) == tx.receiver = n IN SelectSeq(transactions, T)
    IN [transactions |-> transactions,
        adj_list |-> [n \in senders |-> OutOf(n)],
        reverse_adj_list |-> [n \in receivers |-> InOf(n)],
        node_stats |-> [n \in nodes |->
                          [in_degree |-> Len(InOf(n)), out_degree |-> Len(OutOf(n))]],
        all_nodes |-> nodes]

\* NodeStats.total_degree
total_degree(stats) == stats.in_degree + stats.out_degree

\* ------------------------------------------------------------------------
\* cycle_detector.py
\* ------------------------------------------------------------------------
\* _time_span_hours (same body in cycle_detector.py and shell_detector.py)
_time_span_hours(txs) ==
    IF txs = <<>> THEN 0
    ELSE LET ts == {txs[i].timestamp : i \in DOMAIN txs}
         IN SetMax(ts) - SetMin(ts)

\* a variant that never finds the ratio exceeded
CycleRatioNeverExceeded(txs) == FALSE

\* _amount_ratio > MAX_AMOUNT_RATIO, decided exactly; a zero minimum is the
\* code's float("inf")
CycleRatioExceeded(txs) ==
    LET amounts == {txs[i].amount : i \in DOMAIN txs}
    IN IF amounts = {} THEN FALSE
       ELSE IF SetMin(amounts) = 0 THEN TRUE
       ELSE 100 * SetMax(amounts) > CYCLE_MAX_AMOUNT_RATIO_X100 * SetMin(amounts)

\* round(_amount_ratio(txs), 4) in units of 1/10000 (only taken of validated
\* cycles, whose minimum amount is positive)
AmountRatio4(txs) ==
    LET amounts == {txs[i].amount : i \in DOMAIN txs}
    IN RoundDiv(10000 * SetMax(amounts), SetMin(amounts))

\* variants of _validate_cycle that omit one of its two tests
ValidateCycleTimeOnly(txs) == ~(_time_span_hours(txs) > CYCLE_MAX_TIME_SPAN_HOURS)

ValidateCycleRatioOnly(txs) == ~CycleRatioExceeded(txs)

_validate_cycle(txs) ==
    /\ ~(_time_span_hours(txs) > CYCLE_MAX_TIME_SPAN_HOURS)
    /\ ~CycleRatioExceeded(txs)

CycleRing(path, tx_path) ==
    [pattern_type |-> "cycle",
     members |-> path,
     transactions |-> tx_path,
     cycle_length |-> Len(path),
     time_span_hours |-> _time_span_hours(tx_path),
     amount_ratio |-> AmountRatio4(tx_path)]

\* a variant that marks the path as seen before validating the edges
RecordCycleSeenFirst(acc, path, txs) ==
    IF path \in acc.seen_canonical THEN acc
    ELSE IF _validate_cycle(txs)
    THEN [seen_canonical |-> acc.seen_canonical \cup {path},
          results |-> Append(acc.results, CycleRing(path, txs))]
    ELSE [seen_canonical |-> acc.seen_canonical \cup {path}, results |-> acc.results]

\* the "cycle found" branch of _dfs: txs is tx_path with the closing
\* transaction appended
RecordCycle(acc, path, txs) ==
    IF _validate_cycle(txs) /\ path \notin acc.seen_canonical
    THEN [seen_canonical |-> acc.seen_canonical \cup {path},
          results |-> Append(acc.results, CycleRing(path, txs))]
    ELSE acc

\* _dfs: acc = [seen_canonical, results]; i is the position of the for loop
\* over graph.adj_list.get(current, [])
RECURSIVE _dfs(_, _, _, _, _, _)
_dfs(graph, path, tx_path, start, i, acc) ==
    LET current == path[Len(path)]
        depth == Len(path)
        outgoing == Get(graph.adj_list, current)
    IN IF depth > MAX_CYCLE_LEN \/ i > Len(outgoing) THEN acc
       ELSE
        LET tx == outgoing[i]
            neighbour == tx.receiver
            txs == Append(tx_path, tx)
            acc1 ==
              IF neighbour < start THEN acc
              ELSE IF neighbour = start /\ depth >= MIN_CYCLE_LEN THEN
                RecordCycle(acc, path, txs)
              ELSE IF ~InSeq(neighbour, path) /\ depth < MAX_CYCLE_LEN THEN
                IF _time_span_hours(txs) <= CYCLE_MAX_TIME_SPAN_HOURS
                THEN _dfs(graph, Append(path, neighbour), txs, start, 1, acc)
                ELSE acc
              ELSE acc
        IN IF Computed(acc1) THEN _dfs(graph, path, tx_path, start, i + 1, acc1) ELSE acc1

RECURSIVE CycleStarts(_, _, _)
CycleStarts(graph, starts, acc) ==
    IF starts = <<>> THEN acc
    ELSE LET acc1 == _dfs(graph, <<starts[1]>>, <<>>, starts[1], 1, acc)
         IN IF Computed(acc1) THEN CycleStarts(graph, Tail(starts), acc1) ELSE acc1

\* a variant whose degree filter keeps only nodes with exactly one incoming
\* and one outgoing transaction
DetectCyclesDegreeOne(graph) ==
    LET candidate_starts ==
          {n \in DOMAIN graph.adj_list :
              graph.node_stats[n].in_degree = 1 /\ graph.node_stats[n].out_degree = 1}
    IN CycleStarts(graph, Ascending(candidate_starts),
                   [seen_canonical |-> {}, results |-> <<>>]).results

detect_cycles(graph) ==
    LET candidate_starts ==
          {n \in DOMAIN graph.adj_list :
              graph.node_stats[n].in_degree > 0 /\ graph.node_stats[n].out_degree > 0}
    IN CycleStarts(graph, Ascending(candidate_starts),
                   [seen_canonical |-> {}, results |-> <<>>]).results

\* _canonicalize: rotate to start at the smallest member
_canonicalize(path) ==
    LET m == SetMin(Range(path))
        min_idx == CHOOSE i \in DOMAIN path : path[i] = m /\ \A j \in 1..(i-1) : path[j] # m
    IN SubSeq(path, min_idx, Len(path)) \o SubSeq(path, 1, min_idx - 1)

\* ------------------------------------------------------------------------
\* Iteration order of Python sets
\* ------------------------------------------------------------------------
\* The order in which a set of strings is iterated depends on the process'
\* hash seed.  SetIter(S, seed) is the iteration sequence of S under a seed:
\* ascending, descending, or a rotation of the ascending order.
SetIter(S, seed) ==
    LET asc == Ascending(S)
        n == Len(asc)
        k == IF n = 0 THEN 0 ELSE (seed - 1) % n
    IN IF seed = 0 \/ n = 0 THEN asc
       ELSE IF seed = 1 THEN Reverse(asc)
       ELSE SubSeq(asc, k + 1, n) \o SubSeq(asc, 1, k)

\* ------------------------------------------------------------------------
\* shell_detector.py
\* ------------------------------------------------------------------------
_validate_chain(txs) ==
    IF txs = <<>> THEN FALSE
    ELSE IF _time_span_hours(txs) > SHELL_MAX_TIME_SPAN_HOURS THEN FALSE
    ELSE LET amounts == {txs[i].amount : i \in DOMAIN txs}
             min_a == SetMin(amounts)
         IN IF min_a <= 0 THEN FALSE
            ELSE IF 100 * SetMax(amounts) > SHELL_MAX_AMOUNT_RATIO_X100 * min_a THEN FALSE
            ELSE TRUE

RECURSIVE SumDegrees(_, _)
SumDegrees(graph, nodes) ==
    IF nodes = <<>> THEN 0
    ELSE (IF nodes[1] \in DOMAIN graph.node_stats
          THEN total_degree(graph.node_stats[nodes[1]]) ELSE 1)
         + SumDegrees(graph, Tail(nodes))

\* round(_compute_tightness(graph, path), 4) in units of 1/10000
_compute_tightness(graph, path) ==
    LET intermediates == SubSeq(path, 2, Len(path) - 1)
        total == SumDegrees(graph, intermediates)
    IN IF intermediates = <<>> THEN 10000
       ELSE IF total = 0 THEN 10000
       ELSE RoundDiv(10000 * Len(intermediates), total)

ShellRing(graph, path, tx_path) ==
    [pattern_type |-> "shell",
     members |-> path,
     transactions |-> tx_path,
     path_length |-> Len(path),
     tightness_score |-> _compute_tightness(graph, path)]

\* a variant without the degree test
IntermediateDegreeAny(graph, current) == TRUE

\* the intermediate-node test of _explore_chains (lines 107-114)
IntermediateDegreeOk(graph, current) ==
    /\ current \in DOMAIN graph.node_stats
    /\ INTERMEDIATE_DEGREE_MIN <= total_degree(graph.node_stats[current])
    /\ total_degree(graph.node_stats[current]) <= INTERMEDIATE_DEGREE_MAX

\* _explore_chains: acc = [seen_paths, results].  i = 0 is the entry of the
\* call (record the current path), i >= 1 the position of the for loop over
\* the outgoing transactions of the current node.
RECURSIVE _explore_chains(_, _, _, _, _)
_explore_chains(graph, path, tx_path, i, acc) ==
    LET current == path[Len(path)]
        depth == Len(path)
        outgoing == Get(graph.adj_list, current)
    IN IF i = 0 THEN
         LET acc1 ==
               IF /\ depth >= MIN_PATH_LEN
                  /\ path \notin acc.seen_paths
                  /\ _validate_chain(tx_path)
               THEN [seen_paths |-> acc.seen_paths \cup {path},
                     results |-> Append(acc.results, ShellRing(graph, path, tx_path))]
               ELSE acc
         IN IF depth >= MAX_PATH_LEN \/ ~Computed(acc1) THEN acc1
            ELSE _explore_chains(graph, path, tx_path, 1, acc1)
       ELSE IF i > Len(outgoing) THEN acc
       ELSE
         LET tx == outgoing[i]
             neighbour == tx.receiver
             acc1 ==
               IF InSeq(neighbour, path) THEN acc
               ELSE IF tx.amount < MIN_TRANSACTION_AMOUNT THEN acc
               ELSE IF depth > 1 /\ ~IntermediateDegreeOk(graph, current) THEN acc
               ELSE IF _time_span_hours(Append(tx_path, tx)) > SHELL_MAX_TIME_SPAN_HOURS
                    THEN acc
               ELSE _explore_chains(graph, Append(path, neighbour), Append(tx_path, tx), 0, acc)
         IN IF Computed(acc1) THEN _explore_chains(graph, path, tx_path, i + 1, acc1)
            ELSE acc1

\* all contiguous subsequences of length >= 2 of a member tuple
ContiguousSubseqs(members) ==
    {SubSeq(members, s, s + l - 1) :
        <<s, l>> \in {p \in (1..Len(members)) \X (2..Len(members)) :
                         p[1] + p[2] - 1 <= Len(members)}}

RECURSIVE KeepLoop(_, _, _)
KeepLoop(chains, keep, covered_subsequences) ==
    IF chains = <<>> THEN keep
    ELSE IF chains[1].members \in covered_subsequences
         THEN KeepLoop(Tail(chains), keep, covered_subsequences)
         ELSE LET covered == covered_subsequences \cup ContiguousSubseqs(chains[1].members)
              IN IF Computed(covered)
                 THEN KeepLoop(Tail(chains), Append(keep, chains[1]), covered)
                 ELSE keep

\* a variant that walks the chains shortest first
KeepShortestFirst(chains) ==
    IF chains = <<>> THEN <<>>
    ELSE KeepLoop(sorted_by([i \in DOMAIN chains |->
                               [key |-> <<chains[i].path_length>>, val |-> chains[i]]]),
                  <<>>, {})

\* a variant that keeps every candidate chain
KeepEveryChain(chains) == chains

\* _keep_maximal_chains: stable sort by descending path_length, then keep
\* every chain that is not a registered sub-chain of a kept one
_keep_maximal_chains(chains) ==
    IF chains = <<>> THEN <<>>
    ELSE KeepLoop(sorted_by([i \in DOMAIN chains |->
                               [key |-> <<0 - chains[i].path_length>>, val |-> chains[i]]]),
                  <<>>, {})

\* _is_contiguous_subseq(longer, shorter)
_is_contiguous_subseq(longer, shorter) ==
    /\ Len(shorter) <= Len(longer)
    /\ \E start \in 1..(Len(longer) - Len(shorter) + 1) :
          SubSeq(longer, start, start + Len(shorter) - 1) = shorter

RECURSIVE ShellStarts(_, _, _)
ShellStarts(graph, starts, acc) ==
    IF starts = <<>> THEN acc
    ELSE LET acc1 == _explore_chains(graph, <<starts[1]>>, <<>>, 0, acc)
         IN IF Computed(acc1) THEN ShellStarts(graph, Tail(starts), acc1) ELSE acc1

\* the candidate chains recorded by the DFS, before the maximality filter
ShellCandidates(graph, seed) ==
    ShellStarts(graph, sorted(SetIter(graph.all_nodes, seed)),
                [seen_paths |-> {}, results |-> <<>>]).results

detect_shell_chains(graph, seed) == _keep_maximal_chains(ShellCandidates(graph, seed))

\* ------------------------------------------------------------------------
\* smurf_detector.py
\* ------------------------------------------------------------------------
MIN_COUNTERPARTIES == 10
WINDOW_HOURS == 72

\* a variant that takes the sender as counterparty in both directions
CounterpartyIsSender(tx, direction) == tx.sender

Counterparty(tx, direction) ==
    IF direction = "fan_out" THEN tx.receiver ELSE tx.sender

\* current_cp_counts[cp] += 1 on a defaultdict(int)
CountInc(counts, cp) ==
    IF cp \in DOMAIN counts THEN [counts EXCEPT ![cp] = @ + 1]
    ELSE [k \in DOMAIN counts \cup {cp} |-> IF k = cp THEN 1 ELSE counts[k]]

\* a variant that keeps the key of a counterparty whose count reaches 0
CountDecKeepingKey(counts, cp) == [counts EXCEPT ![cp] = @ - 1]

\* current_cp_counts[cp] -= 1, deleting the key when the count reaches 0
CountDec(counts, cp) ==
    IF counts[cp] = 1 THEN [k \in DOMAIN counts \ {cp} |-> counts[k]]
    ELSE [counts EXCEPT ![cp] = @ - 1]

\* the inner while loop: right is the 1-based index of the next transaction
RECURSIVE ExpandRight(_, _, _, _, _)
ExpandRight(sorted_txs, direction, left, right, counts) ==
    IF /\ right <= Len(sorted_txs)
       /\ sorted_txs[right].timestamp - sorted_txs[left].timestamp <= WINDOW_HOURS
    THEN LET counts1 == CountInc(counts, Counterparty(sorted_txs[right], direction))
         IN IF Computed(counts1)
            THEN ExpandRight(sorted_txs, direction, left, right + 1, counts1)
            ELSE [right |-> right, counts |-> counts]
    ELSE [right |-> right, counts |-> counts]

\* the for loop over left; best = [found, txs, counterparties]
RECURSIVE SlideLeft(_, _, _, _, _, _)
SlideLeft(sorted_txs, direction, left, right, counts, best) ==
    IF left > Len(sorted_txs) THEN best
    ELSE
      LET e == ExpandRight(sorted_txs, direction, left, right, counts)
          distinct == Cardinality(DOMAIN e.counts)
          best1 ==
            IF distinct >= MIN_COUNTERPARTIES /\ distinct > Cardinality(best.counterparties)
            THEN [found |-> TRUE,
                  txs |-> SubSeq(sorted_txs, left, e.right - 1),
                  counterparties |-> DOMAIN e.counts]
            ELSE best
          counts1 == CountDec(e.counts, Counterparty(sorted_txs[left], direction))
      IN IF Computed(counts1) /\ Computed(best1)
         THEN SlideLeft(sorted_txs, direction, left + 1, e.right, counts1, best1)
         ELSE best1

_best_sliding_window(sorted_txs, direction) ==
    SlideLeft(sorted_txs, direction, 1, 1, <<>>,
              [found |-> FALSE, txs |-> <<>>, counterparties |-> {}])

RECURSIVE SumSeq(_)
SumSeq(xs) == IF xs = <<>> THEN 0 ELSE xs[1] + SumSeq(Tail(xs))

\* _variance_ratio squared, as the exact fraction [num, den] = variance / mean^2
\* (0 when there are fewer than two amounts or the mean is 0)
_variance_ratio(amounts) ==
    LET n == Len(amounts)
        S == SumSeq(amounts)
        Q == SumSeq([i \in DOMAIN amounts |-> amounts[i] * amounts[i]])
    IN IF n < 2 \/ S = 0 THEN [num |-> 0, den |-> 1]
       ELSE [num |-> n * Q - S * S, den |-> S * S]

\* _check_fan: <<>> for None, else a one-element sequence holding the ring
_check_fan(hub, txs, direction, seed) ==
    IF Len(txs) < MIN_COUNTERPARTIES THEN <<>>
    ELSE
      LET sorted_txs == sorted_by([i \in DOMAIN txs |->
                                     [key |-> <<txs[i].timestamp>>, val |-> txs[i]]])
          best_window == _best_sliding_window(sorted_txs, direction)
          window_txs == best_window.txs
          counterparties == best_window.counterparties
          amounts == [i \in DOMAIN window_txs |-> window_txs[i].amount]
          variance_ratio == _variance_ratio(amounts)
      IN IF ~best_window.found THEN <<>>
         ELSE <<[pattern_type |-> "smurfing",
                 members |-> <<hub>> \o sorted(SetIter(counterparties, seed)),
                 hub |-> hub,
                 direction |-> direction,
                 counterparty_count |-> Cardinality(counterparties),
                 diversity_score |->
                     RoundDiv(10000 * Cardinality(counterparties), Len(window_txs)),
                 variance_ratio_sq |-> variance_ratio,
                 dampened |->
                     \/ 10 * Cardinality(counterparties) > 7 * Len(window_txs)
                     \/ 4 * variance_ratio.num > variance_ratio.den,
                 transactions |-> window_txs]>>

RECURSIVE SmurfNodes(_, _, _)
SmurfNodes(graph, nodes, seed) ==
    IF nodes = <<>> THEN <<>>
    ELSE _check_fan(nodes[1], Get(graph.adj_list, nodes[1]), "fan_out", seed)
         \o _check_fan(nodes[1], Get(graph.reverse_adj_list, nodes[1]), "fan_in", seed)
         \o SmurfNodes(graph, Tail(nodes), seed)

detect_smurfing(graph, seed) ==
    SmurfNodes(graph, sorted(SetIter(graph.all_nodes, seed)), seed)

\* ------------------------------------------------------------------------
\* Exact arithmetic for the float computations of the scoring code.
\* A natural number is a little-endian sequence of limbs in base 10000; a
\* non-negative rational is [n |-> natural, d |-> sequence of positive
\* integers whose product is the denominator].
\* ------------------------------------------------------------------------
RECURSIVE Gcd(_, _)
Gcd(a, b) == IF b = 0 THEN a ELSE Gcd(b, a % b)

RECURSIVE BigOf(_)
BigOf(n) == IF n = 0 THEN <<>> ELSE <<n % 10000>> \o BigOf(n \div 10000)

RECURSIVE BigToInt(_)
BigToInt(a) == IF a = <<>> THEN 0 ELSE a[1] + 10000 * BigToInt(Tail(a))

RECURSIVE BigAddC(_, _, _)
BigAddC(a, b, carry) ==
    IF a = <<>> /\ b = <<>> THEN (IF carry = 0 THEN <<>> ELSE <<carry>>)
    ELSE LET x == (IF a = <<>> THEN 0 ELSE a[1]) + (IF b = <<>> THEN 0 ELSE b[1]) + carry
         IN <<x % 10000>> \o BigAddC(IF a = <<>> THEN <<>> ELSE Tail(a),
                                     IF b = <<>> THEN <<>> ELSE Tail(b),
                                     x \div 10000)

BigAdd(a, b) == BigAddC(a, b, 0)

\* a * m for 0 < m <= 200000
RECURSIVE BigMulC(_, _, _)
BigMulC(a, m, carry) ==
    IF a = <<>> THEN BigOf(carry)
    ELSE LET x == a[1] * m + carry
         IN <<x % 10000>> \o BigMulC(Tail(a), m, x \div 10000)

BigMulSmall(a, m) == IF m = 0 THEN <<>> ELSE BigMulC(a, m, 0)

RECURSIVE BigMulAll(_, _)
BigMulAll(a, ms) == IF ms = <<>> THEN a ELSE BigMulAll(BigMulSmall(a, ms[1]), Tail(ms))

RECURSIVE BigStrip(_)
BigStrip(a) ==
    IF a = <<>> THEN <<>>
    ELSE IF a[Len(a)] = 0 THEN BigStrip(SubSeq(a, 1, Len(a) - 1)) ELSE a

\* floor(a / d) for 0 < d <= 200000, by long division from the top limb; i is
\* the limb being divided, rem the remainder carried down to it
RECURSIVE BigDivC(_, _, _, _)
BigDivC(a, d, i, rem) ==
    IF i = 0 THEN <<>>
    ELSE LET x == rem * 10000 + a[i]
         IN Append(BigDivC(a, d, i - 1, x % d), x \div d)

BigDivSmall(a, d) == BigStrip(BigDivC(a, d, Len(a), 0))

RECURSIVE BigDivAll(_, _)
BigDivAll(a, ds) == IF ds = <<>> THEN a ELSE BigDivAll(BigDivSmall(a, ds[1]), Tail(ds))

\* -1, 0, 1 as a < b, a = b, a > b
RECURSIVE BigCmpFrom(_, _, _)
BigCmpFrom(a, b, i) ==
    IF i = 0 THEN 0
    ELSE IF a[i] < b[i] THEN 0 - 1
    ELSE IF a[i] > b[i] THEN 1
    ELSE BigCmpFrom(a, b, i - 1)

BigCmp(a, b) ==
    IF Len(a) < Len(b) THEN 0 - 1
    ELSE IF Len(a) > Len(b) THEN 1
    ELSE BigCmpFrom(a, b, Len(a))

Rat(n, ds) == [n |-> BigOf(n), d |-> ds]

RatZero == [n |-> <<>>, d |-> <<>>]

RatLeq(a, b) == BigCmp(BigMulAll(a.n, b.d), BigMulAll(b.n, a.d)) <= 0

Lcm(a, b) == (a \div Gcd(a, b)) * b

\* a + b.  Denominators of the same length are combined factor by factor
\* (each factor of the sum is the least common multiple of the two).
RatAdd(a, b) ==
    IF a.n = <<>> THEN b
    ELSE IF b.n = <<>> THEN a
    ELSE IF Len(a.d) = Len(b.d) THEN
      LET d == [i \in DOMAIN a.d |-> Lcm(a.d[i], b.d[i])]
      IN [n |-> BigAdd(BigMulAll(a.n, [i \in DOMAIN d |-> d[i] \div a.d[i]]),
                       BigMulAll(b.n, [i \in DOMAIN d |-> d[i] \div b.d[i]])),
          d |-> d]
    ELSE [n |-> BigAdd(BigMulAll(a.n, b.d), BigMulAll(b.n, a.d)), d |-> a.d \o b.d]

\* a * (m / ds) for a small integer m
RatScale(a, m, ds) == [n |-> BigMulSmall(a.n, m), d |-> a.d \o ds]

\* round(a) to the nearest integer, ties to even
RatRound(a) ==
    LET q == BigToInt(BigDivAll(a.n, a.d))
        c == BigCmp(BigMulSmall(a.n, 2), BigMulAll(BigOf(2 * q + 1), a.d))
    IN IF c > 0 THEN q + 1
       ELSE IF c < 0 THEN q
       ELSE IF q % 2 = 0 THEN q ELSE q + 1

\* ------------------------------------------------------------------------
\* confidence_engine.py
\* ------------------------------------------------------------------------
CONF_MAX_TIME_SPAN_HOURS == 72

\* a weight (in units of 1/10000) times a fraction num/den, in lowest terms
Term(w, num, den) ==
    LET g == Gcd(w * num, den) IN [num |-> (w * num) \div g, den |-> den \div g]

\* _temporal_score as a fraction
_temporal_score(ring) ==
    IF ring.transactions = <<>> THEN [num |-> 1, den |-> 1]
    ELSE LET span_hours == _time_span_hours(ring.transactions)
         IN IF span_hours >= CONF_MAX_TIME_SPAN_HOURS THEN [num |-> 0, den |-> 1]
            ELSE [num |-> CONF_MAX_TIME_SPAN_HOURS - span_hours,
                  den |-> CONF_MAX_TIME_SPAN_HOURS]

\* _amount_score as a fraction: the stored amount_ratio of a cycle ring,
\* else max/min over the ring's transactions
_amount_score(ring) ==
    IF "amount_ratio" \in DOMAIN ring THEN
        IF ring.amount_ratio >= 20000 THEN [num |-> 0, den |-> 1]
        ELSE [num |-> 20000 - ring.amount_ratio, den |-> 10000]
    ELSE IF ring.transactions = <<>> THEN [num |-> 1, den |-> 1]
    ELSE LET amounts == {ring.transactions[i].amount : i \in DOMAIN ring.transactions}
             min_a == SetMin(amounts)
             max_a == SetMax(amounts)
         IN IF min_a = 0 THEN [num |-> 0, den |-> 1]
            ELSE IF max_a >= 2 * min_a THEN [num |-> 0, den |-> 1]
            ELSE [num |-> 2 * min_a - max_a, den |-> min_a]

\* a variant that always answers 1.0
TightnessOne(ring, graph) == [num |-> 1, den |-> 1]

\* _tightness_score as a fraction: the stored value of a shell ring, else
\* 1 / avg(total_degree of members[1:-1]) capped at 1
_tightness_score(ring, graph) ==
    IF "tightness_score" \in DOMAIN ring THEN [num |-> ring.tightness_score, den |-> 10000]
    ELSE IF Len(ring.members) <= 2 THEN [num |-> 1, den |-> 1]
    ELSE LET intermediates == SubSeq(ring.members, 2, Len(ring.members) - 1)
             total_deg == SumDegrees(graph, intermediates)
         IN IF total_deg = 0 THEN [num |-> 1, den |-> 1]
            ELSE IF Len(intermediates) >= total_deg THEN [num |-> 1, den |-> 1]
            ELSE [num |-> Len(intermediates), den |-> total_deg]

\* round(max(0, min(1, 0.4*temporal + 0.3*amount + 0.3*tightness)), 4),
\* in units of 1/10000
Confidence4(temporal, amount, tightness) ==
    LET a == Term(4000, temporal.num, temporal.den)
        b == Term(3000, amount.num, amount.den)
        c == Term(3000, tightness.num, tightness.den)
        v == RoundDiv(a.num * b.den * c.den + b.num * a.den * c.den + c.num * a.den * b.den,
                      a.den * b.den * c.den)
    IN IF v > 10000 THEN 10000 ELSE IF v < 0 THEN 0 ELSE v

compute_structural_confidence(ring, graph) ==
    Confidence4(_temporal_score(ring), _amount_score(ring), _tightness_score(ring, graph))

\* ------------------------------------------------------------------------
\* density_guard.py
\* ------------------------------------------------------------------------
\* DENSITY_THRESHOLD = 0.3 and DENSITY_MULTIPLIER = 0.8, in tenths
DENSITY_THRESHOLD_X10 == 3
DENSITY_MULTIPLIER_X10 == 8

\* the multiplier of one account, in tenths
DensityOf(account, suspicious_accounts, graph) ==
    LET out == Get(graph.adj_list, account)
        inc == Get(graph.reverse_adj_list, account)
        neighbors == {out[i].receiver : i \in DOMAIN out} \cup {inc[i].sender : i \in DOMAIN inc}
        suspicious_neighbors == Cardinality(neighbors \cap suspicious_accounts)
    IN IF neighbors = {} THEN DENSITY_MULTIPLIER_X10
       ELSE IF 10 * suspicious_neighbors < DENSITY_THRESHOLD_X10 * Cardinality(neighbors)
            THEN DENSITY_MULTIPLIER_X10
       ELSE 10

compute_density_adjustments(suspicious_accounts, graph) ==
    [account \in suspicious_accounts |-> DensityOf(account, suspicious_accounts, graph)]

\* ------------------------------------------------------------------------
\* scoring_engine.py
\* ------------------------------------------------------------------------
WEIGHT_CYCLE == 40
WEIGHT_SMURF == 30
WEIGHT_SHELL == 25
WEIGHT_VELOCITY == 10
INTERACTION_BONUS_CYCLE_SMURF == 10
INTERACTION_BONUS_CYCLE_SHELL == 8
INTERACTION_BONUS_PER_PATTERN == 10
VELOCITY_WINDOW_HOURS == 24
VELOCITY_MIN_TX == 5

\* f"{ring_counter:03d}": the decimal digits, zero-padded to at least three.
\* A ring id "RING_ddd" is modelled by its digit tuple; string comparison of
\* two ring ids is LexLess on the tuples.
RECURSIVE Digits(_)
Digits(n) == IF n < 10 THEN <<n>> ELSE Append(Digits(n \div 10), n % 10)

Format03d(n) ==
    LET ds == Digits(n)
    IN IF Len(ds) >= 3 THEN ds ELSE [i \in 1..(3 - Len(ds)) |-> 0] \o ds

\* rank of a pattern tag in Python's string order
TagRank(tag) ==
    CASE tag = "cycle" -> 1
      [] tag = "cycle_length_3" -> 2
      [] tag = "cycle_length_4" -> 3
      [] tag = "cycle_length_5" -> 4
      [] tag = "shell" -> 5
      [] tag = "smurfing" -> 6

TagOfRank(r) ==
    CASE r = 1 -> "cycle"
      [] r = 2 -> "cycle_length_3"
      [] r = 3 -> "cycle_length_4"
      [] r = 4 -> "cycle_length_5"
      [] r = 5 -> "shell"
      [] r = 6 -> "smurfing"

CycleLengthTag(n) ==
    CASE n = 3 -> "cycle_length_3"
      [] n = 4 -> "cycle_length_4"
      [] n = 5 -> "cycle_length_5"

\* the tags a ring adds to each of its members
RingTags(ring) ==
    IF ring.pattern_type = "cycle" THEN {"cycle", CycleLengthTag(ring.cycle_length)}
    ELSE IF ring.pattern_type = "smurfing" THEN {"smurfing"}
    ELSE {"shell"}

\* a variant that takes no notice of the smurfing rings
AssignRingsWithoutSmurfs(graph, rings) ==
    LET NotSmurf(r) == r.pattern_type # "smurfing"
        kept == SelectSeq(rings, NotSmurf)
    IN [i \in DOMAIN kept |->
          [ring_id |-> Format03d(i),
           structural_confidence |-> compute_structural_confidence(kept[i], graph)]
          @@ kept[i]]

\* step 1: ring ids and structural confidence, in the order cycle, smurfing, shell
AssignRings(graph, rings) ==
    [i \in DOMAIN rings |->
        [ring_id |-> Format03d(i),
         structural_confidence |-> compute_structural_confidence(rings[i], graph)]
        @@ rings[i]]

\* the inner while loop of _velocity_check
RECURSIVE VelocityExpand(_, _, _)
VelocityExpand(timestamps, left, right) ==
    IF right <= Len(timestamps) /\ timestamps[right] - timestamps[left] <= VELOCITY_WINDOW_HOURS
    THEN VelocityExpand(timestamps, left, right + 1)
    ELSE right

RECURSIVE VelocityScan(_, _, _)
VelocityScan(timestamps, left, right) ==
    IF left > Len(timestamps) THEN FALSE
    ELSE LET r == VelocityExpand(timestamps, left, right)
         IN IF r - left > VELOCITY_MIN_TX THEN TRUE
            ELSE VelocityScan(timestamps, left + 1, r)

\* _velocity_check: accounts with more than 5 transactions in a 24-hour window
_velocity_check(graph) ==
    {node \in graph.all_nodes :
        LET txs == Get(graph.adj_list, node) \o Get(graph.reverse_adj_list, node)
        IN IF Len(txs) <= VELOCITY_MIN_TX THEN FALSE
           ELSE VelocityScan(sorted([i \in DOMAIN txs |-> txs[i].timestamp]), 1, 1)}

\* the pattern families among cycle, smurfing, shell present in a tag set
DistinctTypes(patterns) ==
    {t \in {"cycle", "smurfing", "shell"} :
        \/ t = "cycle" /\ \E p \in patterns : TagRank(p) <= 4
        \/ t # "cycle" /\ t \in patterns}

\* a variant without the bonus for cycle together with smurfing
BaseScoreWithoutCycleSmurfBonus(patterns, velocity) ==
    LET distinct_types == DistinctTypes(patterns)
    IN (IF \E p \in patterns : TagRank(p) <= 4 THEN WEIGHT_CYCLE ELSE 0)
       + (IF "smurfing" \in patterns THEN WEIGHT_SMURF ELSE 0)
       + (IF "shell" \in patterns THEN WEIGHT_SHELL ELSE 0)
       + (IF velocity THEN WEIGHT_VELOCITY ELSE 0)
       + (IF Cardinality(distinct_types) > 1
          THEN INTERACTION_BONUS_PER_PATTERN * Cardinality(distinct_types) ELSE 0)
       + (IF "cycle" \in distinct_types /\ "shell" \in distinct_types
          THEN INTERACTION_BONUS_CYCLE_SHELL ELSE 0)

\* step 3: base weights and interaction bonuses of one account
BaseScore(patterns, velocity) ==
    LET distinct_types == DistinctTypes(patterns)
    IN (IF \E p \in patterns : TagRank(p) <= 4 THEN WEIGHT_CYCLE ELSE 0)
       + (IF "smurfing" \in patterns THEN WEIGHT_SMURF ELSE 0)
       + (IF "shell" \in patterns THEN WEIGHT_SHELL ELSE 0)
       + (IF velocity THEN WEIGHT_VELOCITY ELSE 0)
       + (IF Cardinality(distinct_types) > 1
          THEN INTERACTION_BONUS_PER_PATTERN * Cardinality(distinct_types) ELSE 0)
       + (IF "cycle" \in distinct_types /\ "smurfing" \in distinct_types
          THEN INTERACTION_BONUS_CYCLE_SMURF ELSE 0)
       + (IF "cycle" \in distinct_types /\ "shell" \in distinct_types
          THEN INTERACTION_BONUS_CYCLE_SHELL ELSE 0)

\* steps 4 and 5: base * (0.8 + 0.4 * avg_conf) * density, exactly.
\* confidences are in units of 1/10000, density in tenths.
RawScore(base, confidences, density) ==
    LET k == Len(confidences)
    IN IF k = 0 THEN Rat(base * density, <<10>>)
       ELSE [n |-> BigMulSmall(BigOf(20000 * k + SumSeq(confidences)), base * density),
             d |-> <<25000, k, 10>>]

\* a variant that starts the multiplier at 0.8
PercentileMultiplierFrom80(rank, n) ==
    LET x == 16 * n + 6 * rank
    IN IF x > 23 * n THEN 23 * n ELSE IF x < 17 * n THEN 17 * n ELSE x

\* step 6: the percentile multiplier as the fraction num / (20 * n):
\* max(0.85, min(1.15, 0.85 + 0.3 * rank / n))
PercentileMultiplierNum(rank, n) ==
    LET x == 17 * n + 6 * rank
    IN IF x > 23 * n THEN 23 * n ELSE IF x < 17 * n THEN 17 * n ELSE x

\* a variant without the cap at 100.0
FinalScoreUncapped(raw, rank, n) ==
    RatRound(RatScale(raw, 10 * PercentileMultiplierNum(rank, n), <<20, n>>))

\* min(100.0, round(score * multiplier, 1)), in tenths
FinalScore(raw, rank, n) ==
    LET v == RatRound(RatScale(raw, 10 * PercentileMultiplierNum(rank, n), <<20, n>>))
    IN IF v > 1000 THEN 1000 ELSE v

RECURSIVE RatSum(_)
RatSum(rs) == IF rs = <<>> THEN RatZero ELSE RatAdd(rs[1], RatSum(Tail(rs)))

\* round(min(100.0, mean_raw * structural_confidence), 1), in tenths
RingRisk(member_raw, structural_confidence) ==
    LET v == IF member_raw = <<>> THEN 0
             ELSE RatRound(RatScale(RatSum(member_raw), 10 * structural_confidence,
                                    <<Len(member_raw), 10000>>))
    IN IF v > 1000 THEN 1000 ELSE v

\* a variant whose summary counts no account
EmptyResultAllZero(graph) ==
    [suspicious_accounts |-> <<>>,
     fraud_rings |-> <<>>,
     summary |-> [total_accounts_analyzed |-> 0,
                  suspicious_accounts_flagged |-> 0,
                  fraud_rings_detected |-> 0],
     all_rings |-> <<>>]

_empty_result(graph) ==
    [suspicious_accounts |-> <<>>,
     fraud_rings |-> <<>>,
     summary |-> [total_accounts_analyzed |-> Cardinality(graph.all_nodes),
                  suspicious_accounts_flagged |-> 0,
                  fraud_rings_detected |-> 0],
     all_rings |-> <<>>]

\* the accounts that are a member of some ring
SuspiciousSet(all_rings) ==
    UNION {Range(all_rings[i].members) : i \in DOMAIN all_rings}

\* the positions in all_rings of the rings an account is a member of
RingsOf(all_rings, a) == {j \in DOMAIN all_rings : InSeq(a, all_rings[j].members)}

\* step 1: account_patterns
AccountPatterns(all_rings, suspicious_set) ==
    [a \in suspicious_set |->
        UNION {RingTags(all_rings[i]) : i \in RingsOf(all_rings, a)}]

\* step 4: the structural confidences of the rings an account belongs to,
\* in ring order
ConfidencesOf(all_rings, a) ==
    LET In(r) == InSeq(a, r.members)
        rs == SelectSeq(all_rings, In)
    IN [i \in DOMAIN rs |-> rs[i].structural_confidence]

\* steps 2 to 5: raw_scores before the percentile normalization
RawScores(graph, all_rings, suspicious_set, account_patterns) ==
    LET velocity_accounts == _velocity_check(graph)
        density_adj == compute_density_adjustments(suspicious_set, graph)
    IN [a \in suspicious_set |->
          RawScore(BaseScore(account_patterns[a], a \in velocity_accounts),
                   ConfidencesOf(all_rings, a), density_adj[a])]

\* step 6: final_scores; rank is bisect_right(sorted_scores, score)
FinalScores(suspicious_set, raw_scores) ==
    [a \in suspicious_set |->
        FinalScore(raw_scores[a],
                   Cardinality({b \in suspicious_set : RatLeq(raw_scores[b], raw_scores[a])}),
                   Cardinality(suspicious_set))]

\* a variant that names the last ring of an account instead of the first
SuspiciousAccountsLastRing(all_rings, suspicious_set, account_patterns, final_scores, seed) ==
    LET order == SetIter(suspicious_set, seed)
        accounts == sorted_by([i \in DOMAIN order |->
                       [key |-> <<0 - final_scores[order[i]], order[i]>>, val |-> order[i]]])
        RingIdsOf(a) == {all_rings[i].ring_id : i \in RingsOf(all_rings, a)}
        PrimaryRing(a) ==
            CHOOSE r \in RingIdsOf(a) : \A q \in RingIdsOf(a) : q = r \/ LexLess(q, r)
        Detected(a) ==
            LET ranks == sorted(SetIter({TagRank(t) : t \in account_patterns[a]}, seed))
            IN [i \in DOMAIN ranks |-> TagOfRank(ranks[i])]
    IN [i \in DOMAIN accounts |->
          [account_id |-> accounts[i],
           suspicion_score |-> final_scores[accounts[i]],
           detected_patterns |-> Detected(accounts[i]),
           ring_id |-> PrimaryRing(accounts[i])]]

\* step 7: suspicious_accounts, by descending score, then by account id
SuspiciousAccounts(all_rings, suspicious_set, account_patterns, final_scores, seed) ==
    LET order == SetIter(suspicious_set, seed)
        accounts == sorted_by([i \in DOMAIN order |->
                       [key |-> <<0 - final_scores[order[i]], order[i]>>, val |-> order[i]]])
        RingIdsOf(a) == {all_rings[i].ring_id : i \in RingsOf(all_rings, a)}
        PrimaryRing(a) ==
            CHOOSE r \in RingIdsOf(a) : \A q \in RingIdsOf(a) : q = r \/ LexLess(r, q)
        Detected(a) ==
            LET ranks == sorted(SetIter({TagRank(t) : t \in account_patterns[a]}, seed))
            IN [i \in DOMAIN ranks |-> TagOfRank(ranks[i])]
    IN [i \in DOMAIN accounts |->
          [account_id |-> accounts[i],
           suspicion_score |-> final_scores[accounts[i]],
           detected_patterns |-> Detected(accounts[i]),
           ring_id |-> PrimaryRing(accounts[i])]]

\* a variant that computes the risk scores from the final account scores
FraudRingsFromFinalScores(all_rings, raw_scores) ==
    LET final_scores == FinalScores(SuspiciousSet(all_rings), raw_scores)
        rings_out == [i \in DOMAIN all_rings |->
            [ring_id |-> all_rings[i].ring_id,
             member_accounts |-> sorted(all_rings[i].members),
             pattern_type |-> all_rings[i].pattern_type,
             risk_score |->
                RingRisk([j \in DOMAIN all_rings[i].members |->
                             Rat(final_scores[all_rings[i].members[j]], <<10>>)],
                         all_rings[i].structural_confidence)]]
    IN sorted_by([i \in DOMAIN rings_out |->
                    [key |-> <<0 - rings_out[i].risk_score>> \o rings_out[i].ring_id,
                     val |-> rings_out[i]]])

\* step 7: fraud_rings, by descending risk score, then by ring id
FraudRings(all_rings, raw_scores) ==
    LET rings_out == [i \in DOMAIN all_rings |->
            [ring_id |-> all_rings[i].ring_id,
             member_accounts |-> sorted(all_rings[i].members),
             pattern_type |-> all_rings[i].pattern_type,
             risk_score |->
                RingRisk([j \in DOMAIN all_rings[i].members |->
                             raw_scores[all_rings[i].members[j]]],
                         all_rings[i].structural_confidence)]]
    IN sorted_by([i \in DOMAIN rings_out |->
                    [key |-> <<0 - rings_out[i].risk_score>> \o rings_out[i].ring_id,
                     val |-> rings_out[i]]])

run_scoring_pipeline(graph, cycle_rings, smurf_rings, shell_rings, seed) ==
    LET all_rings == AssignRings(graph, cycle_rings \o smurf_rings \o shell_rings)
        suspicious_set == SuspiciousSet(all_rings)
        account_patterns == AccountPatterns(all_rings, suspicious_set)
        raw_scores == RawScores(graph, all_rings, suspicious_set, account_patterns)
        final_scores == FinalScores(suspicious_set, raw_scores)
        suspicious_accounts ==
            SuspiciousAccounts(all_rings, suspicious_set, account_patterns, final_scores, seed)
        fraud_rings == FraudRings(all_rings, raw_scores)
    IN IF suspicious_set = {} THEN _empty_result(graph)
       ELSE [suspicious_accounts |-> suspicious_accounts,
             fraud_rings |-> fraud_rings,
             summary |-> [total_accounts_analyzed |-> Cardinality(graph.all_nodes),
                          suspicious_accounts_flagged |-> Len(suspicious_accounts),
                          fraud_rings_detected |-> Len(fraud_rings)],
             all_rings |-> all_rings]

\* ------------------------------------------------------------------------
\* Inputs: the batches the model explores
\* ------------------------------------------------------------------------
\* Bounds
MaxTx == 3
MaxChain == 9
MaxFan == 12
NumSeeds == 2

\* (1) small graphs: up to MaxTx rows over three accounts, a self-transfer
\* included, each row with one of a few (amount, hour) profiles chosen to
\* sit on both sides of every threshold of the detectors; rows are listed in
\* ascending (sender, receiver, amount, hour) order.
SmallNodes == {1, 2, 3}

SmallProfiles == {<<100, 0>>, <<120, 72>>, <<100, 80>>, <<350, 0>>, <<40, 0>>}

\* sender -> receiver pairs of the small graphs
SmallPairs == {p \in SmallNodes \X SmallNodes : p[1] # p[2] \/ p[1] = 2}

RowKey(tx) == <<tx.sender, tx.receiver, tx.amount, tx.timestamp>>

IsSmallBatch(txs) ==
    /\ \A i \in DOMAIN txs :
          /\ <<txs[i].sender, txs[i].receiver>> \in SmallPairs
          /\ <<txs[i].amount, txs[i].timestamp>> \in SmallProfiles
    /\ \A i \in 1..(Len(txs) - 1) : LexLess(RowKey(txs[i]), RowKey(txs[i + 1]))

SmallNext(txs) ==
    IF Len(txs) < MaxTx /\ IsSmallBatch(txs)
    THEN {tx \in {Transaction(Len(txs) + 1, e[1], e[2], p[1], p[2]) :
                     e \in SmallPairs, p \in SmallProfiles} :
             txs = <<>> \/ LexLess(RowKey(txs[Len(txs)]), RowKey(tx))}
    ELSE {}

\* (2) long chains and rings: 1 -> 2 -> ... -> k over up to MaxChain accounts
\* with one amount and evenly spaced hours, optionally closed by k -> 1.
ChainAmounts == {500, 50}

ChainSteps == {0, 2, 12}

IsChainBatch(txs) ==
    /\ txs # <<>>
    /\ txs[1].amount \in ChainAmounts /\ txs[1].timestamp = 0
    /\ \A i \in DOMAIN txs :
          /\ txs[i].sender = i /\ txs[i].receiver = i + 1
          /\ txs[i].amount = txs[1].amount
    /\ Len(txs) >= 2 =>
          /\ txs[2].timestamp \in ChainSteps
          /\ \A i \in DOMAIN txs : txs[i].timestamp = (i - 1) * txs[2].timestamp

ChainNext(txs) ==
    IF txs = <<>> THEN {Transaction(1, 1, 2, a, 0) : a \in ChainAmounts}
    ELSE IF ~IsChainBatch(txs) THEN {}
    ELSE LET k == Len(txs) + 1
             hours == IF Len(txs) = 1 THEN ChainSteps ELSE {Len(txs) * txs[2].timestamp}
         IN {Transaction(k, k, r, txs[1].amount, h) :
                r \in {1} \cup (IF k < MaxChain THEN {k + 1} ELSE {}), h \in hours}

\* (3) the end-to-end scenarios S1 and S2 of the specification
ScenarioS1 ==
    <<Transaction(1, 1, 2, 100, 0), Transaction(2, 2, 3, 100, 6), Transaction(3, 3, 1, 100, 12)>>

ScenarioS2 ==
    <<Transaction(1, 1, 2, 100, 0), Transaction(2, 2, 3, 100, 6), Transaction(3, 3, 1, 200, 12)>>

Scenarios == {ScenarioS1, ScenarioS2}

\* a scenario row by row, then at most one further row of the small graphs
ScenarioNext(txs) ==
    {sc[Len(txs) + 1] : sc \in {x \in Scenarios :
                                   Len(txs) < Len(x) /\ SubSeq(x, 1, Len(txs)) = txs}}
    \cup (IF txs \in Scenarios
          THEN {Transaction(Len(txs) + 1, e[1], e[2], p[1], p[2]) :
                   e \in SmallPairs, p \in SmallProfiles}
          ELSE {})

\* (4) fans: a hub, account 1, paying (or paid by) accounts 2, 3, ... one
\* row each, amount 100, evenly spaced hours, up to MaxFan rows
FanSteps == {1, 8}

IsFanBatch(txs) ==
    /\ txs # <<>>
    /\ txs[1].timestamp = 0
    /\ \/ \A i \in DOMAIN txs : txs[i].sender = 1 /\ txs[i].receiver = i + 1
       \/ \A i \in DOMAIN txs : txs[i].receiver = 1 /\ txs[i].sender = i + 1
    /\ \A i \in DOMAIN txs : txs[i].amount = 100
    /\ Len(txs) >= 2 =>
          /\ txs[2].timestamp \in FanSteps
          /\ \A i \in DOMAIN txs : txs[i].timestamp = (i - 1) * txs[2].timestamp

FanNext(txs) ==
    IF txs = <<>> THEN {Transaction(1, 1, 2, 100, 0), Transaction(1, 2, 1, 100, 0)}
    ELSE IF ~IsFanBatch(txs) \/ Len(txs) >= MaxFan THEN {}
    ELSE LET k == Len(txs) + 1
             hours == IF Len(txs) = 1 THEN FanSteps ELSE {Len(txs) * txs[2].timestamp}
         IN {IF txs[1].sender = 1 THEN Transaction(k, 1, k + 1, 100, h)
                                  ELSE Transaction(k, k + 1, 1, 100, h) : h \in hours}

\* (5) a full fan followed by one row between two of its counterparties,
\* accounts 3 and 4, which gives both a second transaction
FanTailNext(txs) ==
    IF IsFanBatch(txs) /\ Len(txs) = MaxFan
    THEN {Transaction(Len(txs) + 1, 3, 4, 100, 0)}
    ELSE {}

\* (6) a full fan-out followed by two rows of amount 90 that close the cycle
\* 1 -> 2 -> 3 -> 1 (scenario S6: the hub is in a cycle and a smurfing ring;
\* the amount keeps the two rows out of every shell chain)
FanCycleNext(txs) ==
    IF Len(txs) = MaxFan /\ IsFanBatch(txs) /\ txs[1].sender = 1
    THEN {Transaction(Len(txs) + 1, 2, 3, 90, 0)}
    ELSE IF /\ Len(txs) = MaxFan + 1
            /\ IsFanBatch(SubSeq(txs, 1, MaxFan))
            /\ txs[Len(txs)] = Transaction(Len(txs), 2, 3, 90, 0)
    THEN {Transaction(Len(txs) + 1, 3, 1, 90, 0)}
    ELSE {}

\* (7) a full fan followed by one self-transfer of the hub, account 1
FanSelfNext(txs) ==
    IF IsFanBatch(txs) /\ Len(txs) = MaxFan
    THEN {Transaction(Len(txs) + 1, 1, 1, 100, 0)}
    ELSE {}

NextRows(txs) ==
    SmallNext(txs) \cup ChainNext(txs) \cup ScenarioNext(txs) \cup FanNext(txs)
       \cup FanTailNext(txs) \cup FanCycleNext(txs) \cup FanSelfNext(txs)

Seeds == 0..(NumSeeds - 1)

\* ------------------------------------------------------------------------
\* main.py: the analyze request
\* ------------------------------------------------------------------------
VARIABLES
    pc,            \* "reading": parse_csv is in its row loop; "done": analyze returned
    transactions,  \* the rows accepted so far (parse_csv's transactions list)
    cycle_rings,   \* detect_cycles(graph)
    smurf_rings,   \* detect_smurfing(graph)
    raw_results,   \* the candidate chains of detect_shell_chains, before pruning
    shell_rings,   \* detect_shell_chains(graph)
    result,        \* run_scoring_pipeline(...)
    baseline,      \* the earlier request this one is compared with
    fieldnames,    \* reader.fieldnames: the header of the payload
    row,           \* the cells of the data row the row loop is at
    skipped,       \* parse_csv's count of skipped rows
    error,         \* the error the request failed with, "" if none
    ring_counter,  \* run_scoring_pipeline's ring_counter
    ring_ids,      \* the rings given an id so far: ring_id and pattern_type
    file,          \* the upload of a request: has the name a .csv suffix, and the bytes
    raw_text,      \* raw, the decoded text passed to parse_csv, as code points
    _last_graph,   \* main.py's module-level _last_graph
    _last_result,  \* main.py's module-level _last_result
    worker,        \* per worker thread: where it is in analyze, and on which request
    outcome,       \* per request, in order of arrival: "running", "ok" or "failed"
    detail         \* what the last account_detail call read from the cache

vars == <<pc, transactions, cycle_rings, smurf_rings, raw_results, shell_rings, result,
          baseline, fieldnames, row, skipped, error, ring_counter, ring_ids,
          file, raw_text, _last_graph, _last_result, worker, outcome, detail>>

\* the variables of the detection and scoring steps, of parse_csv, and of
\* the ring id loop
detect_vars == <<cycle_rings, smurf_rings, raw_results, shell_rings, result, baseline>>

parse_vars == <<fieldnames, row, skipped, error>>

ring_vars == <<ring_counter, ring_ids>>

\* the variables of the endpoint: the upload and its decoding, the cache and
\* the worker threads
upload_vars == <<file, raw_text>>

cache_vars == <<_last_graph, _last_result, worker, outcome, detail>>

endpoint_vars == <<upload_vars, cache_vars>>

\* Bound: the worker threads of the server
NumWorkers == 2

Workers == 1..NumWorkers

IdleWorker == [pc |-> "idle", request |-> 0, kind |-> ""]

\* no upload received, nothing cached, every worker idle
EndpointIdle ==
    /\ file = None
    /\ raw_text = None
    /\ _last_graph = None
    /\ _last_result = None
    /\ worker = [w \in Workers |-> IdleWorker]
    /\ outcome = <<>>
    /\ detail = None

\* the header with the required columns, in the usual order
CanonicalHeader ==
    <<ColumnName("transaction_id", FALSE, FALSE), ColumnName("sender_id", FALSE, FALSE),
      ColumnName("receiver_id", FALSE, FALSE), ColumnName("amount", FALSE, FALSE),
      ColumnName("timestamp", FALSE, FALSE)>>

NoRow == <<>>

NoResult ==
    [suspicious_accounts |-> <<>>, fraud_rings |-> <<>>,
     summary |-> [total_accounts_analyzed |-> 0, suspicious_accounts_flagged |-> 0,
                  fraud_rings_detected |-> 0],
     all_rings |-> <<>>]

NoBaseline == [kind |-> "none", removed |-> 0, result |-> NoResult]

Init ==
    /\ pc = "reading"
    /\ transactions = <<>>
    /\ cycle_rings = <<>>
    /\ smurf_rings = <<>>
    /\ raw_results = <<>>
    /\ shell_rings = <<>>
    /\ result = NoResult
    /\ baseline = NoBaseline
    /\ fieldnames = CanonicalHeader
    /\ row = NoRow
    /\ skipped = 0
    /\ error = ""
    /\ ring_counter = 0
    /\ ring_ids = <<>>
    /\ EndpointIdle

\* parse_csv, one iteration of the row loop on a well-formed row of a
\* payload whose header is the canonical one
ReadRow ==
    /\ pc = "reading"
    /\ \E tx \in NextRows(transactions) : transactions' = Append(transactions, tx)
    /\ UNCHANGED <<pc, cycle_rings, smurf_rings, raw_results, shell_rings, result, baseline>>
    /\ UNCHANGED <<parse_vars, ring_vars, endpoint_vars>>

\* analyze, from the end of the row loop to the response: _build_graph, the
\* three detectors and run_scoring_pipeline on the accepted rows txs.  seed
\* is the hash seed of the process, which fixes the iteration order of
\* every set.
Respond(txs, earlier) ==
    LET graph == _build_graph(txs)
        cycles == detect_cycles(graph)
    IN \E seed \in Seeds :
          LET smurfs == detect_smurfing(graph, seed)
              candidates == ShellCandidates(graph, seed)
              shells == _keep_maximal_chains(candidates)
          IN /\ cycle_rings' = cycles
             /\ smurf_rings' = smurfs
             /\ raw_results' = candidates
             /\ shell_rings' = shells
             /\ result' = run_scoring_pipeline(graph, cycles, smurfs, shells, seed)
             /\ transactions' = txs
             /\ baseline' = earlier
             /\ pc' = "done"
             /\ UNCHANGED <<parse_vars, ring_vars, endpoint_vars>>

\* the first request: the rows read so far are the whole file
Analyze ==
    /\ pc = "reading"
    /\ transactions # <<>>
    /\ Respond(transactions, NoBaseline)

RemoveAt(s, i) == SubSeq(s, 1, i - 1) \o SubSeq(s, i + 1, Len(s))

\* a second request: the same file without one of its rows
RemoveRow ==
    /\ pc = "done"
    /\ baseline.kind = "none"
    /\ Len(transactions) > 1
    /\ \E i \in DOMAIN transactions :
          Respond(RemoveAt(transactions, i),
                  [kind |-> "removed", removed |-> transactions[i].transaction_id,
                   result |-> result])

\* a second request with the same file
Resubmit ==
    /\ pc = "done"
    /\ baseline.kind = "none"
    /\ Respond(transactions, [kind |-> "repeat", removed |-> 0, result |-> result])

Next == ReadRow \/ Analyze \/ RemoveRow \/ Resubmit

Spec == Init /\ [][Next]_vars

\* ------------------------------------------------------------------------
\* graph_builder.py: parse_csv as a state machine of its own, on payloads
\* with any header and with malformed rows
\* ------------------------------------------------------------------------
\* Bounds
MaxRows == 2
MaxSkipped == 1

\* the headers explored: no header line at all, the canonical header, the
\* same written with capitals and blanks, and one without the timestamp column
Headers ==
    {<<>>,
     CanonicalHeader,
     <<ColumnName("transaction_id", TRUE, TRUE), ColumnName("sender_id", FALSE, TRUE),
       ColumnName("receiver_id", FALSE, FALSE), ColumnName("amount", TRUE, FALSE),
       ColumnName("timestamp", FALSE, FALSE)>>,
     SubSeq(CanonicalHeader, 1, 4)}

\* a row "id,1,2,100,<hour 0>", well-formed under the canonical header
FillerCells(id) ==
    <<Cell("text", id, "", FALSE), Cell("text", 1, "", FALSE), Cell("text", 2, "", FALSE),
      Cell("number", 100, "", FALSE), Cell("time", 0, "%Y-%m-%d %H:%M:%S", FALSE)>>

\* another well-formed row: blanks around the cells, the T timestamp format
PaddedCells(id) ==
    <<Cell("text", id, "", TRUE), Cell("text", 2, "", TRUE), Cell("text", 3, "", FALSE),
      Cell("number", 0, "", TRUE), Cell("time", 6, "%Y-%m-%dT%H:%M:%S", TRUE)>>

\* the malformed rows: amount not a number, negative amount, timestamp in
\* another format, a cell too few (with and without a bad amount), a cell
\* too many
MalformedCells(id) ==
    {[FillerCells(id) EXCEPT ![4] = Cell("text", 0, "", FALSE)],
     [FillerCells(id) EXCEPT ![4] = Cell("number", 0 - 5, "", FALSE)],
     [FillerCells(id) EXCEPT ![5] = Cell("time", 0, "%d/%m/%Y", FALSE)],
     SubSeq(FillerCells(id), 1, 4),
     SubSeq([FillerCells(id) EXCEPT ![4] = Cell("text", 0, "", FALSE)], 1, 4),
     Append(FillerCells(id), Cell("text", 0, "", FALSE))}

\* the payload so far is the canonical header and filler rows only
FillerRun ==
    /\ fieldnames = CanonicalHeader
    /\ \A i \in 1..MaxRows : transactions[i] = NewTransaction(fieldnames, FillerCells(i)).value

\* the rows the payload can continue with: any row while the payload is
\* short; a long payload is a run of filler rows, followed at the limit by a
\* filler row or a malformed one
NextCells ==
    LET n == Len(transactions)
        id == n + skipped + 1
    IN IF n < MaxRows
       THEN {FillerCells(id), PaddedCells(id)}
            \cup (IF skipped < MaxSkipped THEN MalformedCells(id) ELSE {})
       ELSE IF ~FillerRun \/ n < MAX_TRANSACTIONS - 1 THEN {}
       ELSE {FillerCells(id)}
            \cup (IF skipped < MaxSkipped
                  THEN {[FillerCells(id) EXCEPT ![4] = Cell("text", 0, "", FALSE)]}
                  ELSE {})

ParseInit ==
    /\ pc = "header"
    /\ transactions = <<>>
    /\ cycle_rings = <<>>
    /\ smurf_rings = <<>>
    /\ raw_results = <<>>
    /\ shell_rings = <<>>
    /\ result = NoResult
    /\ baseline = NoBaseline
    /\ fieldnames = <<>>
    /\ row = NoRow
    /\ skipped = 0
    /\ error = ""
    /\ ring_counter = 0
    /\ ring_ids = <<>>
    /\ EndpointIdle

\* the request fails: parse_csv raised, analyze answers with an error
Fail(kind) == pc' = "failed" /\ error' = kind

\* parse_csv, column validation
ReadHeader ==
    /\ pc = "header"
    /\ \E h \in Headers :
          /\ fieldnames' = h
          /\ IF h = <<>> THEN Fail("BadSchema")
             ELSE LET headers == {NormaliseKey(h[i]) : i \in DOMAIN h}
                      missing == REQUIRED_COLUMNS \ headers
                  IN IF missing # {} THEN Fail("BadSchema")
                     ELSE pc' = "rows" /\ error' = error
    /\ UNCHANGED <<transactions, detect_vars, row, skipped, ring_vars, endpoint_vars>>

\* parse_csv, one iteration of the row loop on any row.  ValueError and
\* KeyError are caught and the row skipped; any other exception leaves
\* parse_csv and analyze answers "Internal Server Error".
ParseRow ==
    /\ pc = "rows"
    /\ \E cells \in NextCells :
          /\ row' = cells
          /\ IF Len(transactions) >= MAX_TRANSACTIONS
             THEN Fail("TooLarge") /\ UNCHANGED <<transactions, skipped>>
             ELSE IF Len(cells) > Len(fieldnames)
             THEN Fail("Internal") /\ UNCHANGED <<transactions, skipped>>
             ELSE LET tx == NewTransaction(fieldnames, cells)
                  IN IF tx.raises = ""
                     THEN /\ transactions' = Append(transactions, tx.value)
                          /\ UNCHANGED <<pc, skipped, error>>
                     ELSE IF tx.raises \in {"ValueError", "KeyError"}
                     THEN /\ skipped' = skipped + 1
                          /\ UNCHANGED <<pc, transactions, error>>
                     ELSE Fail("Internal") /\ UNCHANGED <<transactions, skipped>>
    /\ UNCHANGED <<detect_vars, fieldnames, ring_vars, endpoint_vars>>

\* parse_csv, the iterations of the row loop on a run of filler rows that
\* takes the accepted rows from MaxRows to one below the limit: every row of
\* the run is well-formed, so each iteration appends its transaction
ParseFillerRows ==
    /\ pc = "rows"
    /\ Len(transactions) = MaxRows
    /\ FillerRun
    /\ LET n == Len(transactions)
           run == [i \in 1..(MAX_TRANSACTIONS - 1 - n) |->
                     NewTransaction(fieldnames, FillerCells(n + skipped + i))]
       IN /\ {i \in DOMAIN run : run[i].raises # ""} = {}
          /\ transactions' = transactions \o [i \in DOMAIN run |-> run[i].value]
          /\ row' = FillerCells(MAX_TRANSACTIONS - 1 + skipped)
    /\ UNCHANGED <<pc, skipped, error, detect_vars, fieldnames, ring_vars, endpoint_vars>>

\* parse_csv, after the last row
EndOfRows ==
    /\ pc = "rows"
    /\ IF transactions = <<>> THEN Fail("EmptyData")
       ELSE pc' = "parsed" /\ error' = error
    /\ UNCHANGED <<transactions, detect_vars, fieldnames, row, skipped, ring_vars, endpoint_vars>>

ParseNext == ReadHeader \/ ParseRow \/ ParseFillerRows \/ EndOfRows

ParseSpec == ParseInit /\ [][ParseNext]_vars

\* ------------------------------------------------------------------------
\* scoring_engine.py: step 1 of run_scoring_pipeline as a state machine of
\* its own, for any number of rings: the three loops that number the cycle
\* rings, then the smurfing rings, then the shell rings
\* ------------------------------------------------------------------------
\* Bounds: the rings numbered in all, and the cycle and smurfing rings
\* among them
MaxRings == 1000
MaxEarlyRings == 2

RingIdInit ==
    /\ pc = "cycle"
    /\ transactions = <<>>
    /\ cycle_rings = <<>>
    /\ smurf_rings = <<>>
    /\ raw_results = <<>>
    /\ shell_rings = <<>>
    /\ result = NoResult
    /\ baseline = NoBaseline
    /\ fieldnames = CanonicalHeader
    /\ row = NoRow
    /\ skipped = 0
    /\ error = ""
    /\ ring_counter = 0
    /\ ring_ids = <<>>
    /\ EndpointIdle

\* one iteration of the loop over the rings of the pattern type pc:
\* ring_counter += 1; ring_id = f"RING_{ring_counter:03d}"
AssignRingId ==
    /\ pc \in {"cycle", "smurfing", "shell"}
    /\ ring_counter < MaxRings
    /\ pc # "shell" => ring_counter < MaxEarlyRings
    /\ ring_counter' = ring_counter + 1
    /\ ring_ids' = Append(ring_ids, [ring_id |-> Format03d(ring_counter + 1),
                                      pattern_type |-> pc])
    /\ UNCHANGED <<pc, transactions, detect_vars, parse_vars, endpoint_vars>>

\* the rings of one detector are exhausted: on to the next loop
NextRingLoop ==
    /\ pc \in {"cycle", "smurfing", "shell"}
    /\ pc' = CASE pc = "cycle" -> "smurfing"
               [] pc = "smurfing" -> "shell"
               [] pc = "shell" -> "numbered"
    /\ UNCHANGED <<transactions, detect_vars, parse_vars, ring_vars, endpoint_vars>>

RingIdNext == AssignRingId \/ NextRingLoop

RingIdSpec == RingIdInit /\ [][RingIdNext]_vars

\* ------------------------------------------------------------------------
\* smurf_detector.py: detect_smurfing as a state machine of its own, on the
\* rows of one hub with repeated counterparties, uneven hours and
\* self-transfers
\* ------------------------------------------------------------------------
\* Bounds: the rows of the hub, and the rows among them that are not regular
MaxHubRows == 12
MaxOddRows == 2

\* row i of the hub, account 1, is regular if its counterparty is the new
\* account i + 1 and it comes 8 hours after the row before it
RegularRow(txs, i) ==
    /\ Counterparty(txs[i], IF txs[1].sender = 1 THEN "fan_out" ELSE "fan_in") = i + 1
    /\ txs[i].timestamp = IF i = 1 THEN 0 ELSE txs[i - 1].timestamp + 8

OddRows(txs) == Cardinality({i \in DOMAIN txs : ~RegularRow(txs, i)})

\* the rows the batch can continue with: a regular row or, MaxOddRows times,
\* a row at the same hour as the last, a row 9 hours later, a row with the
\* counterparty of the first row again, or a self-transfer of the hub
HubRowNext(txs) ==
    IF txs = <<>> THEN {Transaction(1, 1, 2, 100, 0), Transaction(1, 2, 1, 100, 0)}
    ELSE IF Len(txs) >= MaxHubRows THEN {}
    ELSE LET k == Len(txs) + 1
             t == txs[Len(txs)].timestamp
             odd == IF OddRows(txs) < MaxOddRows
                    THEN {<<k + 1, t>>, <<k + 1, t + 9>>, <<2, t + 8>>, <<1, t + 8>>}
                    ELSE {}
         IN {IF txs[1].sender = 1 THEN Transaction(k, 1, c[1], 100, c[2])
                                  ELSE Transaction(k, c[1], 1, 100, c[2]) :
                c \in {<<k + 1, t + 8>>} \cup odd}

SmurfInit ==
    /\ pc = "fan"
    /\ transactions = <<>>
    /\ cycle_rings = <<>>
    /\ smurf_rings = <<>>
    /\ raw_results = <<>>
    /\ shell_rings = <<>>
    /\ result = NoResult
    /\ baseline = NoBaseline
    /\ fieldnames = CanonicalHeader
    /\ row = NoRow
    /\ skipped = 0
    /\ error = ""
    /\ ring_counter = 0
    /\ ring_ids = <<>>
    /\ EndpointIdle

\* parse_csv, one iteration of the row loop on a row of the hub
ReadHubRow ==
    /\ pc = "fan"
    /\ \E tx \in HubRowNext(transactions) : transactions' = Append(transactions, tx)
    /\ UNCHANGED <<pc, detect_vars, parse_vars, ring_vars, endpoint_vars>>

\* analyze: detect_smurfing on the graph of the rows read
DetectSmurfing ==
    /\ pc = "fan"
    /\ transactions # <<>>
    /\ \E seed \in Seeds :
          smurf_rings' = detect_smurfing(_build_graph(transactions), seed)
    /\ pc' = "scanned"
    /\ UNCHANGED <<transactions, cycle_rings, raw_results, shell_rings, result, baseline,
                   parse_vars, ring_vars, endpoint_vars>>

SmurfNext == ReadHubRow \/ DetectSmurfing

SmurfSpec == SmurfInit /\ [][SmurfNext]_vars

\* ------------------------------------------------------------------------
\* main.py: analyze, from the upload to the text handed to parse_csv
\* ------------------------------------------------------------------------
\* Bound: the length of an upload in bytes
MaxUploadBytes == 3

\* the bytes the uploads are made of: "A", the two bytes of the UTF-8
\* encoding of e-acute (C3 A9), its Latin-1 encoding (E9), and the three
\* bytes of the byte order mark (EF BB BF)
UploadBytes == {65, 195, 169, 233, 239, 187, 191}

IsContinuation(b) == 128 <= b /\ b <= 191

\* the number of bytes of the UTF-8 sequence that starts bs, 0 if bs does not
\* start with a well-formed sequence
Utf8Length(bs) ==
    LET b == bs[1]
        Cont(k) == k <= Len(bs) /\ IsContinuation(bs[k])
    IN IF b < 128 THEN 1
       ELSE IF 194 <= b /\ b <= 223 THEN (IF Cont(2) THEN 2 ELSE 0)
       ELSE IF 224 <= b /\ b <= 239
       THEN (IF /\ Cont(2) /\ Cont(3)
                /\ b = 224 => bs[2] >= 160
                /\ b = 237 => bs[2] <= 159
             THEN 3 ELSE 0)
       ELSE IF 240 <= b /\ b <= 244
       THEN (IF /\ Cont(2) /\ Cont(3) /\ Cont(4)
                /\ b = 240 => bs[2] >= 144
                /\ b = 244 => bs[2] <= 143
             THEN 4 ELSE 0)
       ELSE 0

\* the code point a well-formed sequence of n bytes at the start of bs encodes
Utf8CodePoint(bs, n) ==
    CASE n = 1 -> bs[1]
      [] n = 2 -> (bs[1] - 192) * 64 + (bs[2] - 128)
      [] n = 3 -> (bs[1] - 224) * 4096 + (bs[2] - 128) * 64 + (bs[3] - 128)
      [] n = 4 -> (bs[1] - 240) * 262144 + (bs[2] - 128) * 4096 + (bs[3] - 128) * 64
                     + (bs[4] - 128)

\* raw_bytes.decode("utf-8"): the code points, or UnicodeDecodeError
RECURSIVE DecodeUtf8(_)
DecodeUtf8(bs) ==
    IF bs = <<>> THEN Returns(<<>>)
    ELSE LET n == Utf8Length(bs)
         IN IF n = 0 THEN Raises("UnicodeDecodeError")
            ELSE LET rest == DecodeUtf8(SubSeq(bs, n + 1, Len(bs)))
                 IN IF rest.raises # "" THEN rest
                    ELSE Returns(<<Utf8CodePoint(bs, n)>> \o rest.value)

\* raw_bytes.decode("utf-8-sig"): utf-8 after a leading byte order mark, if
\* there is one, is dropped
DecodeUtf8Sig(bs) ==
    IF Len(bs) >= 3 /\ SubSeq(bs, 1, 3) = <<239, 187, 191>>
    THEN DecodeUtf8(SubSeq(bs, 4, Len(bs)))
    ELSE DecodeUtf8(bs)

\* raw_bytes.decode("latin-1"): every byte is the code point of its value
DecodeLatin1(bs) == Returns(bs)

\* lines 76-86 of analyze: utf-8-sig, then utf-8, then latin-1, and the 400
\* "File must be UTF-8 encoded." if the last one raises
DecodeUpload(bs) ==
    LET sig == DecodeUtf8Sig(bs)
        utf8 == DecodeUtf8(bs)
        latin1 == DecodeLatin1(bs)
    IN IF sig.raises = "" THEN sig
       ELSE IF utf8.raises = "" THEN utf8
       ELSE IF latin1.raises = "" THEN latin1
       ELSE Raises("BadEncoding")

DecodeInit ==
    /\ pc = "upload"
    /\ transactions = <<>>
    /\ cycle_rings = <<>>
    /\ smurf_rings = <<>>
    /\ raw_results = <<>>
    /\ shell_rings = <<>>
    /\ result = NoResult
    /\ baseline = NoBaseline
    /\ fieldnames = <<>>
    /\ row = NoRow
    /\ skipped = 0
    /\ error = ""
    /\ ring_counter = 0
    /\ ring_ids = <<>>
    /\ EndpointIdle

\* a request arrives: its file name and its bytes
ReceiveUpload ==
    /\ pc = "upload"
    /\ \E csv \in BOOLEAN, n \in 0..MaxUploadBytes :
          \E bytes \in [1..n -> UploadBytes] : file' = [csv |-> csv, bytes |-> bytes]
    /\ pc' = "received"
    /\ UNCHANGED <<transactions, detect_vars, parse_vars, ring_vars, raw_text, cache_vars>>

\* analyze up to the call of parse_csv: the file name test, file.file.read()
\* and the decoding
ReadAndDecode ==
    /\ pc = "received"
    /\ IF ~file.csv
       THEN Fail("NotCsv") /\ UNCHANGED raw_text
       ELSE LET decoded == DecodeUpload(file.bytes)
            IN IF decoded.raises # ""
               THEN Fail(decoded.raises) /\ UNCHANGED raw_text
               ELSE pc' = "decoded" /\ raw_text' = decoded.value /\ error' = error
    /\ UNCHANGED <<transactions, detect_vars, fieldnames, row, skipped, ring_vars, file,
                   cache_vars>>

DecodeNext == ReceiveUpload \/ ReadAndDecode

DecodeSpec == DecodeInit /\ [][DecodeNext]_vars

\* ------------------------------------------------------------------------
\* main.py: the cache of the last analysis, written by analyze requests
\* running in worker threads and read by account_detail
\* ------------------------------------------------------------------------
\* Bound: the analyze requests of a run
MaxRequests == 3

\* what a request does in analyze: "rejected" raises before parse_csv has
\* returned a graph (file name, decoding, ValueError of parse_csv); "valid"
\* runs to the end; "not_json" holds an amount that is nan or inf, which the
\* pipeline carries to the response and JSONResponse refuses to render
RequestKinds == {"rejected", "valid", "not_json"}

\* the value a request stores in a cache entry, named by the request
ProducedBy(r) == [request |-> r]

CacheInit ==
    /\ pc = "serving"
    /\ transactions = <<>>
    /\ cycle_rings = <<>>
    /\ smurf_rings = <<>>
    /\ raw_results = <<>>
    /\ shell_rings = <<>>
    /\ result = NoResult
    /\ baseline = NoBaseline
    /\ fieldnames = <<>>
    /\ row = NoRow
    /\ skipped = 0
    /\ error = ""
    /\ ring_counter = 0
    /\ ring_ids = <<>>
    /\ EndpointIdle

\* the request has ended in worker w with the given outcome
EndRequest(w, how) ==
    /\ outcome' = [outcome EXCEPT ![worker[w].request] = how]
    /\ worker' = [worker EXCEPT ![w] = IdleWorker]

\* a worker thread takes an analyze request
StartRequest(w) ==
    /\ pc = "serving"
    /\ worker[w].pc = "idle"
    /\ Len(outcome) < MaxRequests
    /\ \E kind \in RequestKinds :
          worker' = [worker EXCEPT ![w] =
                        [pc |-> "parse", request |-> Len(outcome) + 1, kind |-> kind]]
    /\ outcome' = Append(outcome, "running")
    /\ UNCHANGED <<pc, transactions, detect_vars, parse_vars, ring_vars, upload_vars,
                   _last_graph, _last_result, detail>>

\* analyze up to _last_graph = graph: an HTTPException raised on the way
\* ends the request, otherwise the graph is stored
ParseCsv(w) ==
    /\ pc = "serving"
    /\ worker[w].pc = "parse"
    /\ IF worker[w].kind = "rejected"
       THEN EndRequest(w, "failed") /\ UNCHANGED _last_graph
       ELSE /\ _last_graph' = ProducedBy(worker[w].request)
            /\ worker' = [worker EXCEPT ![w].pc = "score"]
            /\ UNCHANGED outcome
    /\ UNCHANGED <<pc, transactions, detect_vars, parse_vars, ring_vars, upload_vars,
                   _last_result, detail>>

\* the detectors, the scoring pipeline, the layout, and _last_result = response
StoreResult(w) ==
    /\ pc = "serving"
    /\ worker[w].pc = "score"
    /\ _last_result' = ProducedBy(worker[w].request)
    /\ worker' = [worker EXCEPT ![w].pc = "respond"]
    /\ UNCHANGED <<pc, transactions, detect_vars, parse_vars, ring_vars, upload_vars,
                   _last_graph, outcome, detail>>

\* return JSONResponse(content=response): rendering a nan or inf raises
\* ValueError, which analyze turns into the 500 response
ReturnResponse(w) ==
    /\ pc = "serving"
    /\ worker[w].pc = "respond"
    /\ EndRequest(w, IF worker[w].kind = "not_json" THEN "failed" ELSE "ok")
    /\ UNCHANGED <<pc, transactions, detect_vars, parse_vars, ring_vars, upload_vars,
                   _last_graph, _last_result, detail>>

\* account_detail: 404 while either entry is None, otherwise the graph is
\* taken from _last_graph and the scores and rings from _last_result
AccountDetail ==
    /\ pc = "serving"
    /\ _last_result # None
    /\ _last_graph # None
    /\ detail' = [graph |-> _last_graph.request, result |-> _last_result.request]
    /\ UNCHANGED <<pc, transactions, detect_vars, parse_vars, ring_vars, upload_vars,
                   _last_graph, _last_result, worker, outcome>>

CacheNext ==
    \/ \E w \in Workers : StartRequest(w)
    \/ \E w \in Workers : ParseCsv(w)
    \/ \E w \in Workers : StoreResult(w)
    \/ \E w \in Workers : ReturnResponse(w)
    \/ AccountDetail

CacheSpec == CacheInit /\ [][CacheNext]_vars

\* ------------------------------------------------------------------------
\* Properties
\* ------------------------------------------------------------------------
Done == pc = "done"

\* total_degree of an account, counted on the rows of the batch
Degree(n) ==
    Cardinality({i \in DOMAIN transactions : transactions[i].sender = n})
    + Cardinality({i \in DOMAIN transactions : transactions[i].receiver = n})

Amounts(txs) == {txs[i].amount : i \in DOMAIN txs}

Hours(txs) == {txs[i].timestamp : i \in DOMAIN txs}

TxIds(txs) == [i \in DOMAIN txs |-> txs[i].transaction_id]

Scores == {result.suspicious_accounts[i].suspicion_score : i \in DOMAIN result.suspicious_accounts}

\* C1: every suspicion_score of the response lies between 0 and 100 and has
\* one decimal (scores are counted in tenths, so 0..1000).
C1_ScoreRange == Done => \A v \in Scores : v \in 0..1000

\* a response in which the cap at 100.0 is reached
C1_Witness == Done /\ 1000 \in Scores

ContiguousIn(short, long) ==
    \E s \in 1..(Len(long) - Len(short) + 1) : SubSeq(long, s, s + Len(short) - 1) = short

KeptChains == {shell_rings[k].members : k \in DOMAIN shell_rings}

\* C4: no returned shell ring's members are a contiguous subsequence of
\* another returned shell ring's members, and every candidate chain that is
\* discarded is a contiguous subsequence of a returned chain.
C4_MaximalChains ==
    Done =>
      /\ \A i, j \in DOMAIN shell_rings :
            i # j => ~ContiguousIn(shell_rings[i].members, shell_rings[j].members)
      /\ \A k \in DOMAIN shell_rings : InSeq(shell_rings[k], raw_results)
      /\ \A k \in DOMAIN raw_results :
            raw_results[k].members \notin KeptChains
               => \E m \in KeptChains : ContiguousIn(raw_results[k].members, m)

\* several chains are kept and some candidate is discarded
C4_Witness == Done /\ Len(shell_rings) >= 2 /\ Len(raw_results) > Len(shell_rings)

\* the walks along the rows of the batch that visit no account twice, each
\* with the rows it follows, grown by one row
Extend(W) ==
    {[path |-> Append(p[1].path, p[2].receiver), txs |-> Append(p[1].txs, p[2])] :
        p \in {q \in W \X Range(transactions) :
                  /\ q[2].sender = q[1].path[Len(q[1].path)]
                  /\ ~InSeq(q[2].receiver, q[1].path)}}

Walks1 ==
    {[path |-> <<n>>, txs |-> <<>>] :
        n \in {transactions[i].sender : i \in DOMAIN transactions}}

Walks3 == Extend(Extend(Walks1))

Walks4 == Extend(Walks3)

Walks5 == Extend(Walks4)

\* the walks of W that some row closes into a cycle within 72 hours and
\* with max/min amount <= 1.25
ClosedValid(W) ==
    {p[1].path :
        p \in {q \in W \X Range(transactions) :
                  /\ q[2].sender = q[1].path[Len(q[1].path)]
                  /\ q[2].receiver = q[1].path[1]
                  /\ LET txs == Append(q[1].txs, q[2])
                     IN /\ SetMax(Hours(txs)) - SetMin(Hours(txs)) <= 72
                        /\ SetMin(Amounts(txs)) > 0
                        /\ 100 * SetMax(Amounts(txs)) <= 125 * SetMin(Amounts(txs))}}

SimpleCycles == ClosedValid(Walks3) \cup ClosedValid(Walks4) \cup ClosedValid(Walks5)

RingKeys(res) ==
    {<<res.all_rings[k].pattern_type, res.all_rings[k].members>> : k \in DOMAIN res.all_rings}

RingsOfType(res, type) == {k \in DOMAIN res.all_rings : res.all_rings[k].pattern_type = type}

CycleKeys(res) == {res.all_rings[k].members : k \in RingsOfType(res, "cycle")}

\* what the detectors recorded of the cycle rings and the smurfing rings
CycleViews(res) ==
    {<<res.all_rings[k].members, TxIds(res.all_rings[k].transactions),
       res.all_rings[k].time_span_hours, res.all_rings[k].amount_ratio>> :
        k \in RingsOfType(res, "cycle")}

SmurfViews(res) ==
    {<<res.all_rings[k].hub, res.all_rings[k].direction, res.all_rings[k].members,
       TxIds(res.all_rings[k].transactions)>> : k \in RingsOfType(res, "smurfing")}

Flagged(res) == {res.suspicious_accounts[k].account_id : k \in DOMAIN res.suspicious_accounts}

\* the ids of the rows that are part of some ring of a response
RingTxIds(res) ==
    UNION {Range(TxIds(res.all_rings[k].transactions)) : k \in DOMAIN res.all_rings}

AtS2 == Done /\ transactions = ScenarioS2

\* C6 as stated: on scenario S2 (triangle A->B->C->A, amounts 100, 100, 200)
\* no ring of any pattern type is detected and no account is flagged.
C6_Original ==
    AtS2 => /\ cycle_rings = <<>> /\ smurf_rings = <<>> /\ shell_rings = <<>>
            /\ result.fraud_rings = <<>>
            /\ result.suspicious_accounts = <<>>

\* C6 amended: on scenario S2 no cycle ring and no smurfing ring is detected;
\* the shell detector returns the chains [A,B,C], [B,C,A], [C,A,B], and A, B,
\* C are flagged with the pattern "shell" alone.
C6_S2ShellOnly ==
    AtS2 => /\ cycle_rings = <<>> /\ smurf_rings = <<>>
            /\ Len(shell_rings) = 3
            /\ KeptChains = {<<1, 2, 3>>, <<2, 3, 1>>, <<3, 1, 2>>}
            /\ Len(result.fraud_rings) = 3
            /\ Flagged(result) = {1, 2, 3}
            /\ \A k \in DOMAIN result.suspicious_accounts :
                  result.suspicious_accounts[k].detected_patterns = <<"shell">>

\* the first response to scenario S2
C6_Witness == AtS2 /\ baseline.kind = "none"

AtS1 == Done /\ transactions = ScenarioS1

CycleConfidences(res) ==
    {res.all_rings[k].structural_confidence : k \in RingsOfType(res, "cycle")}

\* C7 as stated: on scenario S1 the cycle ring's structural_confidence is
\* 0.4 * (1 - 12/72) + 0.3 * 1 + 0.3 * t with t = 1, that is 0.9333.
C7_Original == AtS1 => CycleConfidences(result) = {9333}

\* C7 amended: on scenario S1 the tightness component of the cycle ring
\* [A,B,C] is 1 / total_degree(B) = 0.5, and its structural_confidence is
\* 0.4 * (1 - 12/72) + 0.3 * 1 + 0.3 * 0.5 = 0.7833.
C7_S1Confidence ==
    AtS1 => /\ Len(cycle_rings) = 1
            /\ CycleConfidences(result) = {7833}
            /\ LET t == _tightness_score(cycle_rings[1], _build_graph(transactions))
               IN 2 * t.num = t.den

\* the response to scenario S1 holds the cycle ring [A,B,C]
C7_Witness == AtS1 /\ <<1, 2, 3>> \in CycleKeys(result)

RemovedNonRingRow ==
    Done /\ baseline.kind = "removed" /\ baseline.removed \notin RingTxIds(baseline.result)

\* C8 as stated: removing a row that is part of no detected ring changes
\* neither the accounts in suspicious_accounts nor the rings detected.
C8_Original ==
    RemovedNonRingRow =>
       /\ Flagged(result) = Flagged(baseline.result)
       /\ RingKeys(result) = RingKeys(baseline.result)

\* C8 amended: removing a row that is part of no detected ring leaves the
\* cycle rings and the smurfing rings as they were (same members, same
\* transactions); shell rings, and with them the flagged accounts, can change
\* because the removal lowers the total_degree of the row's two accounts.
C8_CyclesAndSmurfsKept ==
    RemovedNonRingRow =>
       /\ CycleViews(result) = CycleViews(baseline.result)
       /\ SmurfViews(result) = SmurfViews(baseline.result)

\* a cycle ring survives the removal of such a row while the rings as a
\* whole change
C8_Witness ==
    /\ RemovedNonRingRow
    /\ CycleViews(result) # {}
    /\ RingKeys(result) # RingKeys(baseline.result)

RemovedRingRow ==
    Done /\ baseline.kind = "removed" /\ baseline.removed \in RingTxIds(baseline.result)

\* C9 as stated: removing a row that is part of a detected ring never
\* introduces a ring (pattern type plus member sequence) not detected before.
C9_Original == RemovedRingRow => RingKeys(result) \subseteq RingKeys(baseline.result)

\* C9 amended: removing a row that is part of a detected ring never
\* introduces a cycle ring not detected before; it can introduce shell rings
\* and smurfing rings.
C9_NoNewCycle == RemovedRingRow => CycleKeys(result) \subseteq CycleKeys(baseline.result)

\* a row of a cycle ring is removed and the cycle is still detected, through
\* another row between the same two accounts
C9_Witness ==
    /\ RemovedRingRow
    /\ CycleKeys(result) # {}
    /\ \E k \in RingsOfType(baseline.result, "cycle") :
          baseline.removed \in Range(TxIds(baseline.result.all_rings[k].transactions))

\* C10: two requests with the same input return identical
\* suspicious_accounts, fraud_rings and summary, whatever order the sets are
\* iterated in by either run.
C10_Deterministic ==
    (Done /\ baseline.kind = "repeat") =>
       /\ result.suspicious_accounts = baseline.result.suspicious_accounts
       /\ result.fraud_rings = baseline.result.fraud_rings
       /\ result.summary = baseline.result.summary

\* a repeated request whose response holds a smurfing ring
C10_Witness ==
    /\ Done /\ baseline.kind = "repeat"
    /\ \E k \in DOMAIN result.fraud_rings : result.fraud_rings[k].pattern_type = "smurfing"

\* the scores of the flagged accounts before the percentile normalization,
\* from the rings of the response
RawScoresOf(res) ==
    RawScores(_build_graph(transactions), res.all_rings, SuspiciousSet(res.all_rings),
              AccountPatterns(res.all_rings, SuspiciousSet(res.all_rings)))

ScoreOf(res, a) ==
    LET k == CHOOSE i \in DOMAIN res.suspicious_accounts :
                 res.suspicious_accounts[i].account_id = a
    IN res.suspicious_accounts[k].suspicion_score

Clamp(x, lo, hi) == IF x < lo THEN lo ELSE IF x > hi THEN hi ELSE x

\* every flagged account's score is min(100, round(raw * m, 1)) with
\* m = clamp(offset20 / 20 + 0.3 * percentile, 0.85, 1.15) and percentile =
\* (flagged accounts with raw score <= its own) / (flagged accounts)
NormalizedFrom(offset20) ==
    Done =>
      LET raw == RawScoresOf(result)
          S == Flagged(result)
          n == Cardinality(S)
      IN \A a \in S :
            LET rank == Cardinality({b \in S : RatLeq(raw[b], raw[a])})
                m20n == Clamp(offset20 * n + 6 * rank, 17 * n, 23 * n)
                v == RatRound(RatScale(raw[a], 10 * m20n, <<20, n>>))
            IN ScoreOf(result, a) = IF v > 1000 THEN 1000 ELSE v

\* C11 as stated: the percentile multiplier is
\* clamp(0.8 + 0.3 * percentile, 0.85, 1.15).
C11_Original == NormalizedFrom(16)

\* C11 amended: the percentile multiplier is
\* clamp(0.85 + 0.3 * percentile, 0.85, 1.15), where percentile = (number of
\* flagged accounts whose pre-normalization score is <= this account's) /
\* (number of flagged accounts).
C11_Percentile == NormalizedFrom(17)

\* a response in which two flagged accounts have different raw scores, so
\* different percentiles
C11_Witness ==
    /\ Done
    /\ \E a, b \in Flagged(result) :
          ~RatLeq(RawScoresOf(result)[b], RawScoresOf(result)[a])

\* a data row as the specification classifies it: as many cells as the
\* header has columns, an amount that is a number >= 0 and a timestamp in
\* one of the two formats
WellFormed(cells) ==
    /\ fieldnames # <<>>
    /\ Len(cells) = Len(fieldnames)
    /\ RowGet(fieldnames, cells, "amount").kind = "number"
    /\ RowGet(fieldnames, cells, "amount").value >= 0
    /\ RowGet(fieldnames, cells, "timestamp").kind = "time"
    /\ RowGet(fieldnames, cells, "timestamp").fmt \in TimestampFormats

\* the transaction a well-formed row stands for
TxOfCells(cells) ==
    Transaction(RowGet(fieldnames, cells, "transaction_id").value,
                RowGet(fieldnames, cells, "sender_id").value,
                RowGet(fieldnames, cells, "receiver_id").value,
                RowGet(fieldnames, cells, "amount").value,
                RowGet(fieldnames, cells, "timestamp").value)

\* C12: below the row limit, every iteration of the row loop appends the row
\* to transactions if it is well-formed and otherwise (bad or negative
\* amount, bad timestamp, too few or too many cells) leaves transactions as
\* it is and goes on with the next row, without failing the request.
C12_MalformedSkipped ==
    [][(ParseRow /\ Len(transactions) < MAX_TRANSACTIONS) =>
          /\ pc' = "rows"
          /\ transactions' = IF WellFormed(row') THEN Append(transactions, TxOfCells(row'))
                                                 ELSE transactions]_vars

\* the valid rows among the rows read so far: the accepted ones, plus the
\* row at which the request was rejected as too large, if it is well-formed
ValidRowsRead ==
    Len(transactions) + (IF error = "TooLarge" /\ WellFormed(row) THEN 1 ELSE 0)

\* C13: the request fails with TooLarge only if the payload read holds more
\* than 10,000 valid rows, whatever malformed rows it also holds, and a
\* GraphData that is produced holds at most 10,000 transactions.
C13_TooLargeOnlyAboveLimit ==
    /\ error = "TooLarge" => ValidRowsRead > MAX_TRANSACTIONS
    /\ ValidRowsRead > MAX_TRANSACTIONS => error = "TooLarge"
    /\ pc = "parsed" => Len(transactions) <= MAX_TRANSACTIONS

HeaderValid ==
    /\ fieldnames # <<>>
    /\ REQUIRED_COLUMNS \subseteq {NormaliseKey(fieldnames[i]) : i \in DOMAIN fieldnames}

\* C14: once the header is read, a header without a required column (names
\* trimmed and lower-cased) has failed the request with BadSchema before any
\* row was examined; a request that ended with a valid header and no row
\* parsed has failed with EmptyData; a failed request has produced no result.
C14_SchemaAndEmptyErrors ==
    /\ (pc # "header" /\ ~HeaderValid) =>
          /\ pc = "failed" /\ error = "BadSchema"
          /\ row = NoRow /\ transactions = <<>> /\ skipped = 0
    /\ (HeaderValid /\ pc \in {"failed", "parsed"} /\ transactions = <<>>) =>
          pc = "failed" /\ error = "EmptyData"
    /\ pc = "failed" => result = NoResult

\* the members of the rings the three detectors returned
RingMembers ==
    UNION {Range(r.members) :
              r \in Range(cycle_rings) \cup Range(smurf_rings) \cup Range(shell_rings)}

\* C15: the accounts in suspicious_accounts are exactly the members of the
\* detected rings, so an account that is velocity-flagged but in no ring is
\* not flagged; summary.suspicious_accounts_flagged and
\* summary.fraud_rings_detected are the lengths of the two output lists.
C15_FlaggedIffInRing ==
    Done =>
       /\ Flagged(result) = RingMembers
       /\ Len(result.fraud_rings) = Len(cycle_rings) + Len(smurf_rings) + Len(shell_rings)
       /\ result.summary.suspicious_accounts_flagged = Len(result.suspicious_accounts)
       /\ result.summary.fraud_rings_detected = Len(result.fraud_rings)

\* scenario S5: an account with at least 7 transactions in a 24-hour window
\* and in no ring, not flagged
C15_Witness ==
    /\ Done
    /\ Len(transactions) >= 7
    /\ \E a \in _velocity_check(_build_graph(transactions)) :
          a \notin RingMembers /\ a \notin Flagged(result)

\* C16: suspicious_accounts is in ascending order of (-suspicion_score,
\* account_id) with no account id twice, and fraud_rings is in ascending
\* order of (-risk_score, ring_id).
C16_OutputSorted ==
    Done =>
       /\ \A i, j \in DOMAIN result.suspicious_accounts :
             i < j =>
                LET a == result.suspicious_accounts[i]
                    b == result.suspicious_accounts[j]
                IN \/ a.suspicion_score > b.suspicion_score
                   \/ a.suspicion_score = b.suspicion_score /\ a.account_id < b.account_id
       /\ \A i, j \in DOMAIN result.fraud_rings :
             i < j =>
                LET a == result.fraud_rings[i]
                    b == result.fraud_rings[j]
                IN \/ a.risk_score > b.risk_score
                   \/ a.risk_score = b.risk_score /\ LexLess(a.ring_id, b.ring_id)

\* accounts with different scores, listed against the order of their ids,
\* and two rings with the same risk score
C16_Witness ==
    /\ Done
    /\ \E i, j \in DOMAIN result.suspicious_accounts :
          /\ i < j
          /\ result.suspicious_accounts[i].account_id > result.suspicious_accounts[j].account_id
    /\ \E i, j \in DOMAIN result.fraud_rings :
          i < j /\ result.fraud_rings[i].risk_score = result.fraud_rings[j].risk_score

PatternOrder(type) ==
    CASE type = "cycle" -> 1
      [] type = "smurfing" -> 2
      [] type = "shell" -> 3

\* the number a sequence of decimal digits writes
RECURSIVE DigitsValue(_)
DigitsValue(ds) ==
    IF ds = <<>> THEN 0 ELSE 10 * DigitsValue(SubSeq(ds, 1, Len(ds) - 1)) + ds[Len(ds)]

\* C17: the ids come from one counter running over the cycle rings, then
\* the smurfing rings, then the shell rings; for any number of rings they
\* are pairwise distinct and each is RING_ followed by exactly three digits.
C17_RingIds ==
    /\ \A i \in DOMAIN ring_ids :
          /\ DigitsValue(ring_ids[i].ring_id) = i
          /\ Len(ring_ids[i].ring_id) = 3
          /\ \A k \in DOMAIN ring_ids[i].ring_id : ring_ids[i].ring_id[k] \in 0..9
    /\ \A i \in 1..(Len(ring_ids) - 1) :
          /\ PatternOrder(ring_ids[i].pattern_type) <= PatternOrder(ring_ids[i + 1].pattern_type)
          /\ ring_ids[i].ring_id # ring_ids[Len(ring_ids)].ring_id

\* C18: every entry of fraud_rings has pattern_type cycle, smurfing or
\* shell, member accounts that are all nodes of the graph, and at least 3
\* member accounts.
C18_RingShape ==
    Done =>
       \A k \in DOMAIN result.fraud_rings :
          /\ result.fraud_rings[k].pattern_type \in {"cycle", "smurfing", "shell"}
          /\ Range(result.fraud_rings[k].member_accounts)
                \subseteq _build_graph(transactions).all_nodes
          /\ Len(result.fraud_rings[k].member_accounts) >= 3

\* a response with rings of two pattern types, one of them with exactly 3
\* member accounts
C18_Witness ==
    /\ Done
    /\ \E k \in DOMAIN result.fraud_rings : Len(result.fraud_rings[k].member_accounts) = 3
    /\ \E i, j \in DOMAIN result.fraud_rings :
          result.fraud_rings[i].pattern_type # result.fraud_rings[j].pattern_type

\* a response to a file in which no detector found a ring
NoRingDetected ==
    Done /\ cycle_rings = <<>> /\ smurf_rings = <<>> /\ shell_rings = <<>>

EmptyLists ==
    /\ result.suspicious_accounts = <<>>
    /\ result.fraud_rings = <<>>
    /\ result.summary.suspicious_accounts_flagged = 0
    /\ result.summary.fraud_rings_detected = 0

\* C19 as stated: when no ring is detected the lists are empty and every
\* count of the summary is zero, total_accounts_analyzed included.
C19_Original ==
    NoRingDetected => EmptyLists /\ result.summary.total_accounts_analyzed = 0

\* C19: when no ring is detected the two lists are empty and the counts of
\* flagged accounts and of rings are zero, while total_accounts_analyzed is
\* the number of accounts of the graph.
C19_EmptyShortcut ==
    NoRingDetected =>
       /\ EmptyLists
       /\ result.summary.total_accounts_analyzed
             = Cardinality(_build_graph(transactions).all_nodes)

\* a response to a file with rows and no ring
C19_Witness ==
    NoRingDetected /\ Len(transactions) >= 2 /\ result.summary.total_accounts_analyzed >= 3

\* C20: for every smurfing ring the tightness component of
\* structural_confidence is the neutral value 1.0, whatever the degrees of
\* the accounts in the middle of its member list.
C20_SmurfTightnessNeutral ==
    Done =>
       \A i \in DOMAIN result.all_rings :
          LET ring == result.all_rings[i] IN
          ring.pattern_type = "smurfing" =>
             /\ _tightness_score(ring, _build_graph(transactions)).num
                   = _tightness_score(ring, _build_graph(transactions)).den
             /\ ring.structural_confidence
                   = Confidence4(_temporal_score(ring), _amount_score(ring),
                                 [num |-> 1, den |-> 1])

\* scenario S4: the chain A -> B -> C -> D -> E, four rows of amount 500
\* within 10 hours, and nothing else
AtS4 ==
    /\ Done
    /\ Len(transactions) = 4
    /\ \A i \in 1..4 :
          /\ transactions[i].sender = i /\ transactions[i].receiver = i + 1
          /\ transactions[i].amount = 500
    /\ SetMax(Hours(transactions)) - SetMin(Hours(transactions)) <= 10

\* C21: on scenario S4 exactly one shell ring is reported, with members
\* [A,B,C,D,E]; no sub-chain and no ring of another pattern is reported.
C21_S4SingleShellRing ==
    AtS4 => /\ \A n \in {2, 3, 4} : Degree(n) = 2
            /\ cycle_rings = <<>> /\ smurf_rings = <<>>
            /\ Len(shell_rings) = 1
            /\ KeptChains = {<<1, 2, 3, 4, 5>>}
            /\ Len(result.fraud_rings) = 1
            /\ result.fraud_rings[1].pattern_type = "shell"
            /\ result.fraud_rings[1].member_accounts = <<1, 2, 3, 4, 5>>

\* the response to scenario S4 with the rows two hours apart, in which the
\* shell detector had found sub-chains as candidates
C21_Witness ==
    AtS4 /\ Hours(transactions) = {0, 2, 4, 6} /\ Len(raw_results) > 1

\* the pattern families of a flagged account, from the tags of the rings of
\* the response it is a member of
FamiliesOf(res, a) ==
    {res.all_rings[k].pattern_type : k \in RingsOf(res.all_rings, a)}

\* the accounts of a response whose pattern families are exactly cycle and
\* smurfing
CycleAndSmurf(res) == {a \in Flagged(res) : FamiliesOf(res, a) = {"cycle", "smurfing"}}

\* the scores before the percentile normalization when an account of
\* CycleAndSmurf starts from 100, or 110 if it is velocity-flagged, and every
\* other account from its base score
RawScoresS6(res) ==
    LET graph == _build_graph(transactions)
        S == SuspiciousSet(res.all_rings)
        patterns == AccountPatterns(res.all_rings, S)
        density_adj == compute_density_adjustments(S, graph)
        Base(a) == IF a \in CycleAndSmurf(res)
                   THEN 100 + (IF a \in _velocity_check(graph) THEN 10 ELSE 0)
                   ELSE BaseScore(patterns[a], a \in _velocity_check(graph))
    IN [a \in S |-> RawScore(Base(a), ConfidencesOf(res.all_rings, a), density_adj[a])]

AtS3 ==
    /\ Done
    /\ Len(transactions) = 12
    /\ \A i \in 1..12 :
          /\ transactions[i].sender = 1 /\ transactions[i].receiver = i + 1
          /\ transactions[i].amount = 100
          /\ transactions[i].timestamp = i - 1

\* C23: on scenario S3 exactly one smurfing ring is produced, with hub H,
\* direction fan_out, counterparty_count 12, diversity_score 1.0, dampened
\* true, and members H followed by the counterparties in ascending order.
C23_S3SmurfRing ==
    AtS3 =>
       /\ Len(smurf_rings) = 1
       /\ smurf_rings[1].hub = 1
       /\ smurf_rings[1].direction = "fan_out"
       /\ smurf_rings[1].counterparty_count = 12
       /\ smurf_rings[1].diversity_score = 10000
       /\ smurf_rings[1].dampened
       /\ smurf_rings[1].members = <<1, 2, 3, 4, 5, 6, 7, 8, 9, 10, 11, 12, 13>>
       /\ Cardinality(RingsOfType(result, "smurfing")) = 1
       /\ \A k \in RingsOfType(result, "smurfing") :
             result.all_rings[k].members = smurf_rings[1].members

\* the first response to scenario S3
C23_Witness == AtS3 /\ baseline.kind = "none" /\ Len(result.fraud_rings) = 1

\* the rows of a hub in a direction
FanRows(hub, direction) ==
    LET Of(tx) == IF direction = "fan_out" THEN tx.sender = hub ELSE tx.receiver = hub
    IN SelectSeq(transactions, Of)

\* the distinct counterparties of the rows of a hub, in a direction, that lie
\* in the 72 hours from hour t on, both ends included
WindowCounterparties(hub, direction, t) ==
    {Counterparty(tx, direction) :
        tx \in {x \in Range(FanRows(hub, direction)) :
                   t <= x.timestamp /\ x.timestamp <= t + WINDOW_HOURS}}

\* the largest number of distinct counterparties over all 72-hour windows
BestWindowCount(hub, direction) ==
    SetMax({0} \cup {Cardinality(WindowCounterparties(hub, direction, t)) :
                        t \in Hours(FanRows(hub, direction))})

SmurfRingsOf(hub, direction) ==
    {k \in DOMAIN smurf_rings :
        smurf_rings[k].hub = hub /\ smurf_rings[k].direction = direction}

\* C24: detect_smurfing emits a ring, and only one, for a hub and a
\* direction if and only if some 72-hour window (inclusive) of the hub's
\* rows in that direction has at least 10 distinct counterparties; the
\* ring's counterparty_count is the maximum over all such windows, and its
\* transactions lie within 72 hours and have exactly those counterparties.
C24_SlidingWindow ==
    pc = "scanned" =>
       \A hub \in _build_graph(transactions).all_nodes :
          \A direction \in {"fan_out", "fan_in"} :
             LET best == BestWindowCount(hub, direction)
                 rings == SmurfRingsOf(hub, direction)
             IN /\ Cardinality(rings) = IF best >= MIN_COUNTERPARTIES THEN 1 ELSE 0
                /\ \A k \in rings :
                      LET r == smurf_rings[k]
                          cps == {Counterparty(r.transactions[i], direction) :
                                     i \in DOMAIN r.transactions}
                      IN /\ r.counterparty_count = best
                         /\ Cardinality(cps) = best
                         /\ cps = Range(Tail(r.members))
                         /\ Range(r.transactions) \subseteq Range(FanRows(hub, direction))
                         /\ SetMax(Hours(r.transactions)) - SetMin(Hours(r.transactions))
                               <= WINDOW_HOURS

\* a ring whose window is not the first one and spans exactly 72 hours,
\* found among rows of which one names a counterparty again
C24_Witness ==
    /\ pc = "scanned"
    /\ Cardinality({Counterparty(transactions[i], "fan_out") : i \in DOMAIN transactions})
          < Len(transactions)
    /\ \E k \in DOMAIN smurf_rings :
          LET r == smurf_rings[k] IN
          /\ r.direction = "fan_out"
          /\ r.transactions[1] # transactions[1]
          /\ SetMax(Hours(r.transactions)) - SetMin(Hours(r.transactions)) = WINDOW_HOURS
          /\ Len(r.transactions) < Len(transactions)

\* the risk score of a ring of the response, by ring id
RiskOf(res, ring_id) ==
    LET k == CHOOSE i \in DOMAIN res.fraud_rings : res.fraud_rings[i].ring_id = ring_id
    IN res.fraud_rings[k].risk_score

\* C25: each ring's risk_score is min(100, round(mean * structural_confidence,
\* 1)), the mean taken over the entries of the ring's member list of their
\* scores after the density adjustment and before the percentile multiplier
\* and the cap.
C25_RingRisk ==
    Done =>
       /\ Len(result.fraud_rings) = Len(result.all_rings)
       /\ \A k \in DOMAIN result.all_rings :
             LET ring == result.all_rings[k]
                 accounts == ring.members
                 raw == RawScoresOf(result)
                 v == RatRound(RatScale(RatSum([j \in DOMAIN accounts |-> raw[accounts[j]]]),
                                        10 * ring.structural_confidence,
                                        <<Len(accounts), 10000>>))
             IN RiskOf(result, ring.ring_id) = IF v > 1000 THEN 1000 ELSE v

\* a ring with a risk score below the cap, all of whose members have a final
\* score at the cap
C25_Witness ==
    /\ Done
    /\ \E k \in DOMAIN result.fraud_rings :
          /\ result.fraud_rings[k].risk_score < 1000
          /\ \A a \in Range(result.fraud_rings[k].member_accounts) : ScoreOf(result, a) = 1000

\* the number of entries of a sequence equal to x
Occurrences(s, x) == Cardinality({i \in DOMAIN s : s[i] = x})

\* the position of a row in the batch
PositionOf(tx) == CHOOSE i \in DOMAIN transactions : transactions[i] = tx

\* the entries of list are rows of the batch, in the order of the batch
KeepsInputOrder(list) ==
    /\ Range(list) \subseteq Range(transactions)
    /\ \A k \in 1..(Len(list) - 1) : PositionOf(list[k]) < PositionOf(list[k + 1])

RECURSIVE SumOver(_, _)
SumOver(S, f) ==
    IF S = {} THEN 0
    ELSE LET x == CHOOSE y \in S : TRUE IN f[x] + SumOver(S \ {x}, f)

\* C26: in the GraphData of every accepted batch, every sender and receiver
\* is in all_nodes; every transaction occurs exactly once in the adjacency
\* list of its sender and once in the reverse list of its receiver; each
\* list keeps input order; out_degree and in_degree are the lengths of the
\* two lists of the node, and each sums to the number of transactions.
C26_GraphInvariants ==
    Done =>
       LET graph == _build_graph(transactions) IN
       /\ \A i \in DOMAIN transactions :
             LET t == transactions[i] IN
             /\ t.sender \in graph.all_nodes /\ t.receiver \in graph.all_nodes
             /\ Occurrences(Get(graph.adj_list, t.sender), t) = 1
             /\ Occurrences(Get(graph.reverse_adj_list, t.receiver), t) = 1
       /\ \A n \in graph.all_nodes :
             /\ \A k \in DOMAIN Get(graph.adj_list, n) : Get(graph.adj_list, n)[k].sender = n
             /\ \A k \in DOMAIN Get(graph.reverse_adj_list, n) :
                   Get(graph.reverse_adj_list, n)[k].receiver = n
             /\ KeepsInputOrder(Get(graph.adj_list, n))
             /\ KeepsInputOrder(Get(graph.reverse_adj_list, n))
             /\ graph.node_stats[n].out_degree = Len(Get(graph.adj_list, n))
             /\ graph.node_stats[n].in_degree = Len(Get(graph.reverse_adj_list, n))
       /\ SumOver(graph.all_nodes, [n \in graph.all_nodes |-> graph.node_stats[n].out_degree])
             = Len(transactions)
       /\ SumOver(graph.all_nodes, [n \in graph.all_nodes |-> graph.node_stats[n].in_degree])
             = Len(transactions)

\* a batch with a self-transfer and two rows between the same accounts
C26_Witness ==
    /\ Done
    /\ \E i \in DOMAIN transactions : transactions[i].sender = transactions[i].receiver
    /\ \E i, j \in DOMAIN transactions :
          /\ i < j
          /\ transactions[i].sender = transactions[j].sender
          /\ transactions[i].receiver = transactions[j].receiver
          /\ transactions[i].sender # transactions[i].receiver

\* the ids of the rings of the response that list an account as a member
RingIdsWith(res, a) ==
    {res.fraud_rings[k].ring_id :
        k \in {i \in DOMAIN res.fraud_rings : InSeq(a, res.fraud_rings[i].member_accounts)}}

\* C27: the ring_id of every entry of suspicious_accounts is the id of an
\* entry of fraud_rings whose member_accounts holds the account, and is the
\* smallest, in string order, of the ids of all such entries.
C27_PrimaryRing ==
    Done =>
       \A k \in DOMAIN result.suspicious_accounts :
          LET e == result.suspicious_accounts[k]
              ids == RingIdsWith(result, e.account_id)
          IN /\ e.ring_id \in ids
             /\ \A q \in ids : q = e.ring_id \/ LexLess(e.ring_id, q)

\* an account in several rings whose ring_id is not that of the first ring
\* of fraud_rings it is a member of
C27_Witness ==
    /\ Done
    /\ \E k \in DOMAIN result.suspicious_accounts :
          LET e == result.suspicious_accounts[k]
              first == CHOOSE i \in DOMAIN result.fraud_rings :
                          /\ InSeq(e.account_id, result.fraud_rings[i].member_accounts)
                          /\ \A j \in 1..(i - 1) :
                                ~InSeq(e.account_id, result.fraud_rings[j].member_accounts)
          IN /\ Cardinality(RingIdsWith(result, e.account_id)) >= 2
             /\ result.fraud_rings[first].ring_id # e.ring_id

\* C28: an upload of a .csv file whose bytes are not valid UTF-8 is rejected
\* with BadEncoding and its text never reaches parse_csv.
C28_NonUtf8Rejected ==
    (pc \in {"decoded", "failed"} /\ file.csv /\ DecodeUtf8(file.bytes).raises # "") =>
       pc = "failed" /\ error = "BadEncoding" /\ raw_text = None

\* the requests whose values are in the cache
CachedRequests ==
    {e.request : e \in {_last_graph, _last_result} \ {None}}

\* C29: with every request ended, _last_graph and _last_result are both unset
\* or were stored by the same request; account_detail never reads a graph of
\* one request together with the result of another; and a request that failed
\* has left nothing in the cache.
C29_CacheConsistent ==
    /\ (\A w \in Workers : worker[w].pc = "idle") =>
          \/ _last_graph = None /\ _last_result = None
          \/ _last_graph # None /\ _last_result # None
               /\ _last_graph.request = _last_result.request
    /\ detail # None => detail.graph = detail.result
    /\ \A r \in CachedRequests : outcome[r] # "failed"

\* no entry of the list comes twice
NoDuplicates(s) == \A i, j \in DOMAIN s : s[i] = s[j] => i = j

\* C30: no ring of a detector lists an account twice among its members, and
\* no ring of the response lists an account twice in member_accounts,
\* self-transfers in the batch included.
C30_MembersDistinct ==
    Done =>
       /\ \A r \in Range(cycle_rings) \cup Range(smurf_rings) \cup Range(shell_rings) :
             NoDuplicates(r.members)
       /\ \A k \in DOMAIN result.fraud_rings :
             NoDuplicates(result.fraud_rings[k].member_accounts)

====
